---- MODULE Spec2Model ----
(***************************************************************************)
(* Model of the Markdown tooling of bin/docs: the text cursor (parser.py),  *)
(* the tokenizer and the document (markdown.py) and the assembly of the     *)
(* standalone document (build_standalone_md.py).                            *)
(*                                                                          *)
(* A Python string is a sequence of one-character strings.                  *)
(***************************************************************************)
EXTENDS Integers, Sequences, FiniteSets, TLC

VARIABLES
    \* ---- tokenizer run (parse_markdown) ----
    text,       \* the text given to parse_markdown in the first pass
    buffer,     \* Parser.buffer
    offset,     \* Parser.offset
    children,   \* root.children of the document being built (node records)
    pc,         \* "idle" | "loop" | "returned" | "raised"
    pass,       \* 1: parse of text, 2: parse of the first pass' to_text()
    first,      \* root.children of the first pass, once it has returned
    spans,      \* history: the source substring each iteration consumed
    \* ---- documents as objects (MarkdownDoc over shared Node objects) ----
    heap,       \* node objects by identity: oid -> node record
    docs,       \* [acc, src]: the children list (of oids) of two documents
    ret,        \* outcome of the last document operation
    calls,      \* history: the counts of the indent calls made, in order
    snaps,      \* history: the heap before each of these calls
    \* ---- add_sections ----
    job,        \* the add_sections call in progress
    log         \* transform steps applied to the current file_md, in order

vars == <<text, buffer, offset, children, pc, pass, first, spans, heap, docs, ret, calls, snaps, job, log>>

parseVars == <<text, buffer, offset, children, pc, pass, first, spans>>
docVars == <<heap, docs, ret, calls, snaps>>
mergeVars == <<job, log>>

(***************************************************************************)
(* Strings                                                                  *)
(***************************************************************************)
NL == "\n"
SP == " "
TAB == "\t"
\* the backquote character (named, as it cannot be written in a string here)
BQ == "BQ"

\* two characters outside ASCII: e with an acute accent, which NFKD decomposes
\* to "e" and a combining accent, and the euro sign, which it leaves alone
EACUTE == "e-acute"
EURO == "euro"
\* a letter outside ASCII that NFKD leaves alone: o with a stroke
OSLASH == "o-stroke"

LowerLetters ==
    <<"a", "b", "c", "d", "e", "f", "g", "h", "i", "j", "k", "l", "m",
      "n", "o", "p", "q", "r", "s", "t", "u", "v", "w", "x", "y", "z">>
UpperLetters ==
    <<"A", "B", "C", "D", "E", "F", "G", "H", "I", "J", "K", "L", "M",
      "N", "O", "P", "Q", "R", "S", "T", "U", "V", "W", "X", "Y", "Z">>
Digits == {"0", "1", "2", "3", "4", "5", "6", "7", "8", "9"}
Range(f) == { f[i] : i \in DOMAIN f }
Punctuation == {"#", BQ, "-", "~", "[", "]", ":", "(", ")", "/", ".", "_", "!", "<", ">",
                "{", "}", ",", "?", "=", "|"}

\* The characters of the modelled texts
Chars ==
    {NL, SP, TAB, EACUTE, EURO} \cup Punctuation \cup Digits
        \cup Range(LowerLetters) \cup Range(UpperLetters)

RECURSIVE Concat(_)
\* "".join(parts)
Concat(parts) ==
    IF parts = <<>> THEN <<>> ELSE Head(parts) \o Concat(Tail(parts))

RECURSIVE Repeat(_, _)
\* c * n  (Python: the empty string when n <= 0)
Repeat(c, n) == IF n <= 0 THEN <<>> ELSE <<c>> \o Repeat(c, n - 1)

\* str.lower() of one character
Lower(c) ==
    IF \E i \in 1..26 : UpperLetters[i] = c
    THEN LowerLetters[CHOOSE i \in 1..26 : UpperLetters[i] = c]
    ELSE c

\* the characters str.strip() removes and \s matches
PySpaceChars == {SP, TAB, NL}

RECURSIVE LStrip(_)
LStrip(t) == IF t # <<>> /\ Head(t) \in PySpaceChars THEN LStrip(Tail(t)) ELSE t

RECURSIVE RStrip(_)
RStrip(t) ==
    IF t # <<>> /\ t[Len(t)] \in PySpaceChars THEN RStrip(SubSeq(t, 1, Len(t) - 1)) ELSE t

\* str.strip()
Strip(t) == RStrip(LStrip(t))

(***************************************************************************)
(* parser.py : Parser                                                       *)
(***************************************************************************)
left(buf, off) == Len(buf) - off

\* mutant: what is left is returned when fewer than count are left
peek_partial(buf, off, count) ==
    IF left(buf, off) < count THEN SubSeq(buf, off + 1, Len(buf))
    ELSE SubSeq(buf, off + 1, off + count)

\* Parser.peek: the next count characters, "" when fewer are left
peek(buf, off, count) ==
    IF left(buf, off) < count THEN <<>> ELSE SubSeq(buf, off + 1, off + count)

\* mutant: the offset moves whatever is left
read_offset_unchecked(buf, off, count) == off + count

\* Parser.read: the offset after read(count)
read_offset(buf, off, count) ==
    IF left(buf, off) < count THEN off ELSE off + count

RECURSIVE read_while_offset(_, _, _)
\* Parser.read_while: the offset after read_while(f), f(c) being c \in accept
read_while_offset(buf, off, accept) ==
    IF left(buf, off) > 0 /\ peek(buf, off, 1)[1] \in accept
    THEN read_while_offset(buf, read_offset(buf, off, 1), accept)
    ELSE off

RECURSIVE peek_while_offset(_, _, _)
\* Parser.peek_while: the local offset its loop stops at
peek_while_offset(buf, off, accept) ==
    IF off < Len(buf) /\ buf[off + 1] \in accept
    THEN peek_while_offset(buf, off + 1, accept)
    ELSE off

peek_while(buf, off, accept) ==
    SubSeq(buf, off + 1, peek_while_offset(buf, off, accept))

(***************************************************************************)
(* markdown.py : nodes                                                      *)
(***************************************************************************)
WhitespaceChars == {SP, TAB, NL}
\* what \s matches among Chars
RegexSpaceChars == PySpaceChars
NotNewline == Chars \ {NL}

is_whitespace(c) == c = SP \/ c = TAB \/ c = NL

\* mutant: only the empty line is blank
is_blank_empty_only(line) == line = <<>>

is_blank(line) == \A i \in 1..Len(line) : is_whitespace(line[i])

NoStr == <<>>

\* Python's None where a string may stand, and what "if x:" makes of x
PyNone == <<"None">>
Truthy(x) == x # PyNone /\ x # <<>>

Node(type, content) ==
    [type |-> type, content |-> content, title |-> NoStr, level |-> 0,
     ref |-> NoStr, link |-> NoStr, id |-> NoStr]

\* mutant: the header line is not terminated
build_header_no_newline(title, level) == Repeat("#", level) \o <<SP>> \o title

build_header(title, level) == Repeat("#", level) \o <<SP>> \o title \o <<NL>>

\* Header.update_content
Header_update_content(h) == [h EXCEPT !.content = build_header(h.title, h.level)]

\* Header.__init__
Header(title, level) ==
    Header_update_content(
        [type |-> "Header", content |-> NoStr, title |-> title, level |-> level,
         ref |-> NoStr, link |-> NoStr, id |-> NoStr])

\* mutant: a dedent stops at level 1
Header_indent_clamped(h, count) ==
    Header_update_content(
        [h EXCEPT !.level = IF h.level + count < 1 THEN 1 ELSE h.level + count])

\* Header.indent
Header_indent(h, count) ==
    Header_update_content([h EXCEPT !.level = h.level + count])

\* RefLink.__init__ with RefLink.update_content
RefLink(ref, link) ==
    [type |-> "RefLink", content |-> <<"[">> \o ref \o <<"]", ":", SP>> \o link \o <<NL>>,
     title |-> NoStr, level |-> 0, ref |-> ref, link |-> link, id |-> NoStr]

(***************************************************************************)
(* markdown.py : tokenizer                                                  *)
(***************************************************************************)
\* parse_whitespace
parse_whitespace(buf, off) ==
    LET end == read_while_offset(buf, off, WhitespaceChars)
    IN [node |-> Node("Whitespace", SubSeq(buf, off + 1, end)), offset |-> end, ok |-> TRUE]

RECURSIVE parse_code_loop(_, _, _, _)
\* the while loop of parse_code
parse_code_loop(buf, off, separator, content) ==
    IF peek(buf, off, 1) = <<>> THEN [content |-> content, offset |-> off]
    ELSE IF peek(buf, off, 3) = separator
         THEN [content |-> content \o peek(buf, off, 3), offset |-> read_offset(buf, off, 3)]
         ELSE parse_code_loop(buf, read_offset(buf, off, 1), separator,
                              content \o peek(buf, off, 1))

parse_code(buf, off) ==
    LET separator == peek(buf, off, 3)
        r == parse_code_loop(buf, read_offset(buf, off, 3), separator, separator)
    IN [node |-> Node("Code", r.content), offset |-> r.offset, ok |-> TRUE]

parse_header(buf, off) ==
    LET o1 == read_while_offset(buf, off, {"#"})
        hashes == SubSeq(buf, off + 1, o1)
        o2 == read_while_offset(buf, o1, WhitespaceChars)
        o3 == read_while_offset(buf, o2, NotNewline)
        title == SubSeq(buf, o2 + 1, o3)
        o4 == read_offset(buf, o3, 1)
    IN [node |-> Header(title, Len(hashes)), offset |-> o4, ok |-> TRUE]

\* mutant: the pattern r"\[.+]:.+", which asks for no space after the colon
re_match_ref_line_no_space(line) ==
    /\ Len(line) >= 1
    /\ line[1] = "["
    /\ \E i \in 3..Len(line) :
          /\ line[i] = "]"
          /\ i + 2 <= Len(line)
          /\ line[i + 1] = ":"

\* re.match(r"\[.+]: .+", line), line holding no newline: is there a match
re_match_ref_line(line) ==
    /\ Len(line) >= 1
    /\ line[1] = "["
    /\ \E i \in 3..Len(line) :
          /\ line[i] = "]"
          /\ i + 3 <= Len(line)
          /\ line[i + 1] = ":"
          /\ line[i + 2] = SP

\* The positions where "]:\s+.+" can match to the end of the line
RefLinkClosers(line) ==
    { i \in 3..Len(line) :
        /\ line[i] = "]"
        /\ i + 3 <= Len(line)
        /\ line[i + 1] = ":"
        /\ line[i + 2] \in RegexSpaceChars }

SetMax(S) == CHOOSE x \in S : \A y \in S : y <= x

\* re.match(r"\[(?P<ref>.+)]:\s+(?P<link>.+)", line): the groups of the match.
\* ref is greedy: the last closing "]:" wins; \s+ is greedy but leaves one
\* character to link.
re_match_ref_link(line) ==
    IF Len(line) >= 1 /\ line[1] = "[" /\ RefLinkClosers(line) # {}
    THEN LET i == SetMax(RefLinkClosers(line))
             ws_end == peek_while_offset(line, i + 1, RegexSpaceChars)
             link_start == IF ws_end = Len(line) THEN Len(line) ELSE ws_end + 1
         IN [matched |-> TRUE, ref |-> SubSeq(line, 2, i - 1),
             link |-> SubSeq(line, link_start, Len(line))]
    ELSE [matched |-> FALSE, ref |-> NoStr, link |-> NoStr]

parse_ref_link(buf, off) ==
    LET o1 == read_while_offset(buf, off, NotNewline)
        line == SubSeq(buf, off + 1, o1)
        o2 == read_offset(buf, o1, 1)
        m == re_match_ref_link(line)
    IN \* assert ret is not None
       [node |-> RefLink(m.ref, m.link), offset |-> o2, ok |-> m.matched]

RECURSIVE parse_paragraph_loop(_, _, _)
\* the while loop of parse_paragraph
parse_paragraph_loop(buf, off, content) ==
    IF peek(buf, off, 1) = <<>> THEN [content |-> content, offset |-> off]
    ELSE IF peek(buf, off, 1) = <<NL>>
         THEN LET c2 == content \o peek(buf, off, 1)
                  o2 == read_offset(buf, off, 1)
                  line == peek_while(buf, o2, NotNewline)
              IN IF is_blank(line) THEN [content |-> c2, offset |-> o2]
                 ELSE parse_paragraph_loop(buf, o2, c2)
         ELSE parse_paragraph_loop(buf, read_offset(buf, off, 1),
                                   content \o peek(buf, off, 1))

\* mutant: the newline that ends the paragraph is consumed but not kept
parse_paragraph_drops_newline(buf, off) ==
    LET r == parse_paragraph_loop(buf, off, <<>>)
        n == Len(r.content)
        kept == IF n > 0 /\ r.content[n] = NL THEN SubSeq(r.content, 1, n - 1) ELSE r.content
    IN [node |-> Node("Paragraph", kept), offset |-> r.offset, ok |-> TRUE]

parse_paragraph(buf, off) ==
    LET r == parse_paragraph_loop(buf, off, <<>>)
    IN [node |-> Node("Paragraph", r.content), offset |-> r.offset, ok |-> TRUE]

Fences == {<<"-", "-", "-">>, <<"~", "~", "~">>, <<BQ, BQ, BQ>>}

\* The branch one iteration of the loop of parse_markdown takes (peek() # "")
Branch(buf, off) ==
    LET c == peek(buf, off, 1)[1]
    IN IF is_whitespace(c) THEN "Whitespace"
       ELSE IF (c = "-" \/ c = "~" \/ c = BQ) /\ peek(buf, off, 3) \in Fences THEN "Code"
       ELSE IF c = "#" THEN "Header"
       ELSE IF c = "[" /\ re_match_ref_line(peek_while(buf, off, NotNewline)) THEN "RefLink"
       ELSE "Paragraph"

\* One iteration of the loop of parse_markdown: the node and the new offset
parse_node(buf, off) ==
    CASE Branch(buf, off) = "Whitespace" -> parse_whitespace(buf, off)
      [] Branch(buf, off) = "Code" -> parse_code(buf, off)
      [] Branch(buf, off) = "Header" -> parse_header(buf, off)
      [] Branch(buf, off) = "RefLink" -> parse_ref_link(buf, off)
      [] OTHER -> parse_paragraph(buf, off)

RECURSIVE parse_markdown_loop(_, _, _)
parse_markdown_loop(buf, off, nodes) ==
    IF peek(buf, off, 1) = <<>> THEN nodes
    ELSE LET r == parse_node(buf, off)
         IN parse_markdown_loop(buf, r.offset, Append(nodes, r.node))

\* parse_markdown(text).children
parse_markdown(t) == parse_markdown_loop(t, 0, <<>>)

(***************************************************************************)
(* markdown.py : MarkdownDoc over node records                              *)
(***************************************************************************)
IsRefLink(n) == n.type = "RefLink"
IsNotRefLink(n) == n.type # "RefLink"

RECURSIVE JoinContents(_)
\* "".join([node.content for node in nodes if node.content])
JoinContents(nodes) ==
    IF nodes = <<>> THEN <<>>
    ELSE (IF Head(nodes).content # NoStr THEN Head(nodes).content ELSE <<>>)
         \o JoinContents(Tail(nodes))

\* mutant: the nodes are joined in document order
to_text_in_order(nodes) == JoinContents(nodes)

\* MarkdownDoc.to_text
to_text(nodes) ==
    LET ref_links_nodes == SelectSeq(nodes, IsRefLink)
        other_nodes == SelectSeq(nodes, IsNotRefLink)
    IN JoinContents(other_nodes \o ref_links_nodes)

(***************************************************************************)
(* Tokenizer runs: parse_markdown(text), then parse_markdown of its to_text *)
(***************************************************************************)
MaxPieces == 4

Fragments ==
    { <<NL>>, <<SP>>, <<"#">>, <<"a">>, <<BQ, BQ, BQ>>, <<"-", "-", "-">>,
      <<"[", "a", "]", ":">>, <<"[", "a", "]", ":", SP, "b">> }

\* the texts made of at most k fragments
Texts(k) == UNION { { Concat(s) : s \in [1..n -> Fragments] } : n \in 0..k }

NoHeap == <<>>
NoDocs == [acc |-> <<>>, src |-> <<>>]
NoJob == [pc |-> "none"]

InitParse ==
    /\ text \in Texts(MaxPieces)
    /\ buffer = text
    /\ offset = 0
    /\ children = <<>>
    /\ pc = "loop"
    /\ pass = 1
    /\ first = <<>>
    /\ spans = <<>>
    /\ heap = NoHeap /\ docs = NoDocs /\ ret = "none" /\ calls = <<>> /\ snaps = <<>>
    /\ job = NoJob /\ log = <<>>

\* One iteration of "while parser.peek() != ''" taking the branch of the kind
Iterate(kind, r) ==
    /\ pc = "loop"
    /\ peek(buffer, offset, 1) # <<>>
    /\ Branch(buffer, offset) = kind
    /\ IF r.ok
       THEN /\ offset' = r.offset
            /\ children' = Append(children, r.node)
            /\ spans' = Append(spans, SubSeq(buffer, offset + 1, r.offset))
            /\ pc' = "loop"
       ELSE /\ pc' = "raised"
            /\ UNCHANGED <<offset, children, spans>>
    /\ UNCHANGED <<text, buffer, pass, first, docVars, mergeVars>>

ParseWhitespace == Iterate("Whitespace", parse_whitespace(buffer, offset))
ParseCode == Iterate("Code", parse_code(buffer, offset))
ParseHeader == Iterate("Header", parse_header(buffer, offset))
ParseRefLink == Iterate("RefLink", parse_ref_link(buffer, offset))
ParseParagraph == Iterate("Paragraph", parse_paragraph(buffer, offset))

\* the loop condition fails: return root
ParseReturn ==
    /\ pc = "loop"
    /\ peek(buffer, offset, 1) = <<>>
    /\ pc' = "returned"
    /\ UNCHANGED <<text, buffer, offset, children, pass, first, spans, docVars, mergeVars>>

\* parse_markdown(doc.to_text()) of the document just returned
Reparse ==
    /\ pc = "returned"
    /\ pass = 1
    /\ first' = children
    /\ buffer' = to_text(children)
    /\ offset' = 0
    /\ children' = <<>>
    /\ spans' = <<>>
    /\ pass' = 2
    /\ pc' = "loop"
    /\ UNCHANGED <<text, docVars, mergeVars>>

NextParse ==
    \/ ParseWhitespace
    \/ ParseCode
    \/ ParseHeader
    \/ ParseRefLink
    \/ ParseParagraph
    \/ ParseReturn
    \/ Reparse

SpecParse == InitParse /\ [][NextParse]_vars

(***************************************************************************)
(* Properties of the tokenizer runs (SpecParse)                             *)
(***************************************************************************)
Types(nodes) == [i \in 1..Len(nodes) |-> nodes[i].type]

HasType(nodes, type) == \E i \in 1..Len(nodes) : nodes[i].type = type

\* no RefLink node sits before a node of another type
RefLinksLast(nodes) ==
    \A i, j \in 1..Len(nodes) :
        (i < j /\ nodes[i].type = "RefLink") => nodes[j].type = "RefLink"

\* every Header and RefLink of the document was written, in the source, in the
\* form its content is regenerated in
GeneratedForm ==
    \A i \in 1..Len(children) :
        children[i].type \in {"Header", "RefLink"} => children[i].content = spans[i]

FirstPassReturned == pc = "returned" /\ pass = 1

\* C1 as stated: for every input text, parse_markdown(text).to_text() = text.
C1_RoundTripAnyText == FirstPassReturned => to_text(children) = text

\* C1 amended: the contents of Whitespace, Code and Paragraph nodes are the
\* exact source substrings, the nodes cover the consumed input, and
\* parse_markdown(text).to_text() = text for every text whose header and
\* reference-link lines are in generated form and whose reference-link lines
\* come after every other node.
C1_RoundTripGeneratedForm ==
    pass = 1 =>
        /\ Len(spans) = Len(children)
        /\ Concat(spans) = SubSeq(buffer, 1, offset)
        /\ \A i \in 1..Len(children) :
              children[i].type \in {"Whitespace", "Code", "Paragraph"}
                  => children[i].content = spans[i]
        /\ (FirstPassReturned /\ GeneratedForm /\ RefLinksLast(children))
              => to_text(children) = text

\* C1 reached: a returned first pass over a text in generated form, with a
\* RefLink at its end, whose to_text() is the text
C1_Witness ==
    /\ FirstPassReturned
    /\ GeneratedForm
    /\ RefLinksLast(children)
    /\ HasType(children, "RefLink")
    /\ Len(children) >= 2
    /\ to_text(children) = text

\* C2: parse_markdown never raises; an iteration of its loop emits one node
\* and consumes at least one character; the loop is left exactly when no
\* character is left; a line starting with "[" that is no reference link
\* becomes a Paragraph.
C2_TerminatesWithoutRaising ==
    /\ [](pc # "raised" /\ offset <= Len(buffer))
    /\ [][pc = "loop" =>
            IF left(buffer, offset) = 0
            THEN pc' = "returned" /\ children' = children /\ offset' = offset
            ELSE /\ pc' = "loop"
                 /\ buffer' = buffer
                 /\ offset' > offset
                 /\ Len(children') = Len(children) + 1
                 /\ SubSeq(children', 1, Len(children)) = children
                 /\ (/\ buffer[offset + 1] = "["
                     /\ ~re_match_ref_link(peek_while(buffer, offset, NotNewline)).matched)
                       => children'[Len(children')].type = "Paragraph"]_vars

\* C2 reached: a returned run that emitted a RefLink, and a Paragraph for a
\* line starting with "[" that is no reference link
C2_Witness ==
    /\ pc = "returned"
    /\ HasType(children, "RefLink")
    /\ \E i \in 1..Len(children) :
          children[i].type = "Paragraph" /\ children[i].content[1] = "["

MaxNodes == 3
MaxLen == 3
MaxSrcLen == 1

Oids == 1..MaxNodes
DocNames == {"acc", "src"}
Cap(d) == IF d = "acc" THEN MaxLen ELSE MaxSrcLen

\* The node objects the callers have constructed: Header, RefLink, Paragraph
Title(o) == IF o <= 3 THEN <<"a">> ELSE <<"b">>

PoolNode(o) ==
    CASE o % 3 = 1 -> Header(Title(o), 1)
      [] o % 3 = 2 -> RefLink(<<"r">>, Title(o))
      [] OTHER -> Node("Paragraph", Title(o) \o <<NL>>)

Pool == [o \in Oids |-> PoolNode(o)]

\* the children lists of at most n of the node objects
Lists(n) == UNION { [1..k -> Oids] : k \in 0..n }

Deref(h, ch) == [i \in 1..Len(ch) |-> h[ch[i]]]

Contains(ch, o) == \E i \in 1..Len(ch) : ch[i] = o

\* list.index(o), 0-based; defined when Contains(ch, o)
index(ch, o) == (CHOOSE i \in 1..Len(ch) : ch[i] = o /\ \A j \in 1..(i - 1) : ch[j] # o) - 1

\* ch[i:j] of Python, 0 <= i, j
PySlice(ch, i, j) == SubSeq(ch, i + 1, IF j > Len(ch) THEN Len(ch) ELSE j)

NoRet == [op |-> "none", doc |-> "none", arg |-> {}, raised |-> "no", node |-> {}, txt |-> <<>>]
Ret(op, d, arg) == [NoRet EXCEPT !.op = op, !.doc = d, !.arg = arg]
Raised(op, d, arg, e) == [Ret(op, d, arg) EXCEPT !.raised = e]

\* MarkdownDoc.add_child
add_child(ch, o) == Append(ch, o)

\* mutant: the node is put after start
insert_node_after(ch, start, o) ==
    LET i == index(ch, start)
    IN PySlice(ch, 0, i + 1) \o <<o>> \o PySlice(ch, i + 1, Len(ch))

\* MarkdownDoc.insert_node, start being in ch
insert_node(ch, start, o) ==
    LET i == index(ch, start)
    IN PySlice(ch, 0, i) \o <<o>> \o PySlice(ch, i, Len(ch))

\* mutant: every occurrence is removed
remove_node_every(ch, o) == SelectSeq(ch, LAMBDA x : x # o)

\* MarkdownDoc.remove_node
remove_node(ch, o) ==
    IF Contains(ch, o)
    THEN LET i == index(ch, o) IN PySlice(ch, 0, i) \o PySlice(ch, i + 1, Len(ch))
    ELSE ch

\* MarkdownDoc.remove_nodes
remove_nodes(ch, nodes) == SelectSeq(ch, LAMBDA o : o \notin nodes)

\* mutant: the other nodes are put in front
extend_in_front(ch, other) == other \o ch

\* MarkdownDoc.extend
extend(ch, other) == ch \o other

\* MarkdownDoc.next_node
next_node(ch, d, o) ==
    IF ~Contains(ch, o) THEN Raised("next_node", d, {o}, "ValueError")
    ELSE LET i == index(ch, o)
         IN IF i < Len(ch)
            THEN IF i + 1 < Len(ch)
                 THEN [Ret("next_node", d, {o}) EXCEPT !.node = {ch[i + 2]}]
                 ELSE Raised("next_node", d, {o}, "IndexError")
            ELSE Ret("next_node", d, {o})

\* MarkdownDoc.previous_node
previous_node(ch, d, o) ==
    IF ~Contains(ch, o) THEN Raised("previous_node", d, {o}, "ValueError")
    ELSE LET i == index(ch, o)
         IN IF i > 0
            THEN [Ret("previous_node", d, {o}) EXCEPT !.node = {ch[i]}]
            ELSE Ret("previous_node", d, {o})

\* acc is the document operated on, src a document another caller built
InitDoc ==
    /\ heap = Pool
    /\ \E other \in Lists(MaxSrcLen) : docs = [acc |-> <<>>, src |-> other]
    /\ ret = NoRet
    /\ calls = <<>> /\ snaps = <<>>
    /\ text = <<>> /\ buffer = <<>> /\ offset = 0 /\ children = <<>>
    /\ pc = "idle" /\ pass = 0 /\ first = <<>> /\ spans = <<>>
    /\ job = NoJob /\ log = <<>>

Mutate(d, ch) ==
    /\ docs' = [docs EXCEPT ![d] = ch]
    /\ ret' = NoRet
    /\ UNCHANGED <<heap, calls, snaps, parseVars, mergeVars>>

Query(r) ==
    /\ ret' = r
    /\ UNCHANGED <<heap, docs, calls, snaps, parseVars, mergeVars>>

AddChild(d, o) ==
    /\ Len(docs[d]) < Cap(d)
    /\ Mutate(d, add_child(docs[d], o))

InsertNode(d, start, o) ==
    /\ Len(docs[d]) < Cap(d)
    /\ IF Contains(docs[d], start)
       THEN Mutate(d, insert_node(docs[d], start, o))
       ELSE Query(Raised("insert_node", d, {o}, "ValueError"))

RemoveNode(d, o) ==
    Mutate(d, remove_node(docs[d], o))

RemoveNodes(d, nodes) ==
    Mutate(d, remove_nodes(docs[d], nodes))

Extend(d, other) ==
    /\ Len(docs[d]) + Len(docs[other]) <= Cap(d)
    /\ Mutate(d, extend(docs[d], docs[other]))

NextNode(d, o) == Query(next_node(docs[d], d, o))

PreviousNode(d, o) == Query(previous_node(docs[d], d, o))

ToText(d) ==
    Query([Ret("to_text", d, {}) EXCEPT !.txt = to_text(Deref(heap, docs[d]))])

NextDoc ==
    \/ \E o \in Oids : AddChild("acc", o)
    \/ \E start, o \in Oids : InsertNode("acc", start, o)
    \/ \E o \in Oids : RemoveNode("acc", o)
    \/ \E nodes \in SUBSET Oids : RemoveNodes("acc", nodes)
    \/ \E other \in DocNames : Extend("acc", other)
    \/ \E o \in Oids : NextNode("acc", o)
    \/ \E o \in Oids : PreviousNode("acc", o)
    \/ ToText("acc")

Spec == InitDoc /\ [][NextDoc]_vars

(***************************************************************************)
(* Properties of the document operations (Spec)                             *)
(***************************************************************************)
RECURSIVE TextOf(_, _, _)
\* the contents, in sequence order, of the RefLink nodes (refs = TRUE) or of
\* the other nodes (refs = FALSE) of a children list
TextOf(h, ch, refs) ==
    IF ch = <<>> THEN <<>>
    ELSE (IF (h[Head(ch)].type = "RefLink") = refs THEN h[Head(ch)].content ELSE <<>>)
         \o TextOf(h, Tail(ch), refs)

C7_NeighboursOrNone ==
    /\ (ret.op = "next_node" /\ Contains(docs[ret.doc], CHOOSE o \in ret.arg : TRUE)) =>
          LET ch == docs[ret.doc]
              i == index(ch, CHOOSE o \in ret.arg : TRUE) + 1
          IN /\ ret.raised = "no"
             /\ ret.node = IF i = Len(ch) THEN {} ELSE {ch[i + 1]}
    /\ (ret.op = "previous_node" /\ Contains(docs[ret.doc], CHOOSE o \in ret.arg : TRUE)) =>
          LET ch == docs[ret.doc]
              i == index(ch, CHOOSE o \in ret.arg : TRUE) + 1
          IN /\ ret.raised = "no"
             /\ ret.node = IF i = 1 THEN {} ELSE {ch[i - 1]}

(***************************************************************************)
(* MarkdownDoc.indent                                                       *)
(***************************************************************************)
MaxIndent == 2
MaxCalls == 2
MaxInitLevel == 2

RECURSIVE indent(_, _, _)
\* MarkdownDoc.indent: the heap after the loop over the children list ch
indent(h, ch, count) ==
    IF ch = <<>> THEN h
    ELSE LET c == Head(ch)
             h2 == IF h[c].type = "Header"
                   THEN [h EXCEPT ![c] = Header_indent(h[c], count)]
                   ELSE h
         IN indent(h2, Tail(ch), count)

\* a document of headers of levels 1..MaxInitLevel and other nodes
InitIndent ==
    /\ \E lv \in [Oids -> 1..MaxInitLevel] :
          heap = [o \in Oids |->
                    IF Pool[o].type = "Header" THEN Header(Title(o), lv[o]) ELSE Pool[o]]
    /\ \E ch \in Lists(MaxLen) : docs = [acc |-> ch, src |-> <<>>]
    /\ ret = NoRet
    /\ calls = <<>> /\ snaps = <<>>
    /\ text = <<>> /\ buffer = <<>> /\ offset = 0 /\ children = <<>>
    /\ pc = "idle" /\ pass = 0 /\ first = <<>> /\ spans = <<>>
    /\ job = NoJob /\ log = <<>>

Indent(d, count) ==
    /\ Len(calls) < MaxCalls
    /\ heap' = indent(heap, docs[d], count)
    /\ calls' = Append(calls, count)
    /\ snaps' = Append(snaps, heap)
    /\ UNCHANGED <<docs, ret, parseVars, mergeVars>>

NextIndent == \E count \in (-MaxIndent)..MaxIndent : Indent("acc", count)

SpecIndent == InitIndent /\ [][NextIndent]_vars

(***************************************************************************)
(* Properties of indent (SpecIndent)                                        *)
(***************************************************************************)
\* the heap after the i-th indent call
HeapAfter(i) == IF i = Len(calls) THEN heap ELSE snaps[i + 1]

HeadersOf(d) == { o \in Oids : Contains(docs[d], o) /\ heap[o].type = "Header" }

\* C5: indent(n) followed by indent(-n), n of either sign, leaves every
\* header of the document with the level and the content it had before.
C5_IndentThenBack ==
    \A i \in 1..(Len(calls) - 1) :
        calls[i + 1] = -calls[i] =>
            \A o \in HeadersOf("acc") :
                /\ HeapAfter(i + 1)[o].level = snaps[i][o].level
                /\ HeapAfter(i + 1)[o].content = snaps[i][o].content

\* C5 reached: a dedent below level 1 followed by the opposite indent
C5_Witness ==
    /\ Len(calls) = 2
    /\ calls[1] < 0
    /\ calls[2] = -calls[1]
    /\ \E o \in HeadersOf("acc") : snaps[2][o].level < 1 /\ heap[o].level >= 1

\* C6: whatever indent calls were made, every header of the document has a
\* level of 1 or more and a content starting with "#".
C6_LevelAtLeastOne ==
    \A o \in HeadersOf("acc") : heap[o].level >= 1 /\ heap[o].content[1] = "#"

(***************************************************************************)
(* build_standalone_md.py : slugify                                         *)
(***************************************************************************)
\* unicodedata.normalize("NFKD", c).encode("ascii", "ignore").decode("ascii")
nfkd_ascii(c) ==
    IF c = EACUTE THEN <<"e">>
    ELSE IF c \in {EURO, OSLASH} THEN <<>>
    ELSE <<c>>

\* what \w matches among the ASCII characters
WordChars == Range(LowerLetters) \cup Range(UpperLetters) \cup Digits \cup {"_"}

RECURSIVE nfkd_ascii_text(_)
\* the same, of a text
nfkd_ascii_text(t) ==
    IF t = <<>> THEN <<>> ELSE nfkd_ascii(Head(t)) \o nfkd_ascii_text(Tail(t))

RECURSIVE collapse_dashes(_)
\* re.sub(r"[-\s]+", "-", t)
collapse_dashes(t) ==
    IF t = <<>> THEN <<>>
    ELSE IF Head(t) \in ({"-"} \cup RegexSpaceChars)
         THEN <<"-">> \o collapse_dashes(
                  SubSeq(t, peek_while_offset(t, 0, {"-"} \cup RegexSpaceChars) + 1, Len(t)))
         ELSE <<Head(t)>> \o collapse_dashes(Tail(t))

\* mutant: a slash becomes a hyphen
slugify_slash_hyphen(t) ==
    LET ascii == nfkd_ascii_text(t)
        kept == SelectSeq(ascii, LAMBDA c : c \in WordChars \cup RegexSpaceChars \cup {"/", "-"})
        lowered == [i \in 1..Len(Strip(kept)) |-> Lower(Strip(kept)[i])]
        dashed == collapse_dashes(lowered)
    IN [i \in 1..Len(dashed) |-> IF dashed[i] = "/" THEN "-" ELSE dashed[i]]

\* slugify
slugify(t) ==
    LET ascii == nfkd_ascii_text(t)
        kept == SelectSeq(ascii, LAMBDA c : c \in WordChars \cup RegexSpaceChars \cup {"/", "-"})
        lowered == [i \in 1..Len(Strip(kept)) |-> Lower(Strip(kept)[i])]
    IN SelectSeq(collapse_dashes(lowered), LAMBDA c : c # "/")

(***************************************************************************)
(* build_standalone_md.py : add_header_id, inline_ref_link, rewrite_links   *)
(***************************************************************************)
\* mutant: the prefix is not used
add_header_id_no_prefix(h, prefix) ==
    Header_update_content([h EXCEPT !.id = slugify(h.title)])

\* add_header_id: the header object afterwards
add_header_id(h, prefix) ==
    LET slug == slugify(h.title)
        _id == IF Truthy(prefix) THEN prefix \o <<"-">> \o slug ELSE slug
    IN Header_update_content([h EXCEPT !.id = _id])

NoNewlineIn(t, i, j) == \A k \in i..j : t[k] # NL

SetMin(S) == CHOOSE x \in S : \A y \in S : x <= y

\* the positions a match of r"\[(?P<ref>.+?)]" starting at i can end at
RefEnds(t, i) ==
    { j \in (i + 2)..Len(t) : t[j] = "]" /\ NoNewlineIn(t, i + 1, j - 1) }

\* mutant: a label without a RefLink loses its brackets
inline_repl_bare_label(ref, ref_nodes) ==
    LET found == SelectSeq(ref_nodes, LAMBDA n : n.ref = ref)
    IN IF found = <<>> THEN ref
       ELSE <<"[">> \o ref \o <<"]", "(">> \o Strip(found[1].link) \o <<")">>

\* repl of inline_ref_link, ref_nodes being the RefLink objects in order
inline_repl(ref, ref_nodes) ==
    LET found == SelectSeq(ref_nodes, LAMBDA n : n.ref = ref)
    IN IF found = <<>> THEN <<"[">> \o ref \o <<"]">>
       ELSE <<"[">> \o ref \o <<"]", "(">> \o Strip(found[1].link) \o <<")">>

RECURSIVE sub_ref(_, _, _)
\* re.sub(r"\[(?P<ref>.+?)]", repl, t), from position i on
sub_ref(t, i, ref_nodes) ==
    IF i > Len(t) THEN <<>>
    ELSE IF t[i] = "[" /\ RefEnds(t, i) # {}
         THEN LET j == SetMin(RefEnds(t, i))
              IN inline_repl(SubSeq(t, i + 1, j - 1), ref_nodes)
                     \o sub_ref(t, j + 1, ref_nodes)
         ELSE <<t[i]>> \o sub_ref(t, i + 1, ref_nodes)

\* r"\[(?P<title>.+?)]\(#(?P<anchor>.+?)\)": where the anchor can end, the
\* title ending before j
AnchorEnds(t, j) ==
    { k \in (j + 4)..Len(t) : t[k] = ")" /\ NoNewlineIn(t, j + 3, k - 1) }

AnchorTitleEnds(t, i) ==
    { j \in (i + 2)..(Len(t) - 2) :
        /\ t[j] = "]" /\ t[j + 1] = "(" /\ t[j + 2] = "#"
        /\ NoNewlineIn(t, i + 1, j - 1)
        /\ AnchorEnds(t, j) # {} }

RECURSIVE sub_anchor(_, _, _)
\* the first re.sub of rewrite_links, from position i on
sub_anchor(t, i, prefix) ==
    IF i > Len(t) THEN <<>>
    ELSE IF t[i] = "[" /\ AnchorTitleEnds(t, i) # {}
         THEN LET j == SetMin(AnchorTitleEnds(t, i))
                  k == SetMin(AnchorEnds(t, j))
                  title == SubSeq(t, i + 1, j - 1)
                  anchor == SubSeq(t, j + 3, k - 1)
              IN <<"[">> \o title \o <<"]", "(", "#">> \o prefix \o <<"-">> \o anchor
                     \o <<")">> \o sub_anchor(t, k + 1, prefix)
         ELSE <<t[i]>> \o sub_anchor(t, i + 1, prefix)

\* section_from_page
section_from_page(page) ==
    IF page \in {<<"h", "o", "m", "e", ".", "m", "d">>} THEN <<"I", "n", "t", "r", "o", "d", "u", "c", "t", "i", "o", "n">>
    ELSE IF page \in {<<"l", "i", "c", "e", "n", "s", "e", ".", "m", "d">>} THEN <<"R", "e", "s", "o", "u", "r", "c", "e", "s">>
    ELSE IF page \in {<<"i", "n", "s", "t", "a", "l", "l", "a", "t", "i", "o", "n", ".", "m", "d">>,
                      <<"m", "a", "n", "u", "a", "l", ".", "m", "d">>,
                      <<"s", "a", "m", "p", "l", "e", ".", "m", "d">>,
                      <<"r", "u", "n", "n", "i", "n", "g", "-", "t", "e", "s", "t", "s", ".", "m", "d">>,
                      <<"f", "r", "e", "q", "u", "e", "n", "t", "l", "y", "-", "a", "s", "k", "e", "d", "-", "q", "u", "e", "s", "t", "i", "o", "n", "s", ".", "m", "d">>}
         THEN <<"G", "e", "t", "t", "i", "n", "g", SP, "S", "t", "a", "r", "t", "e", "d">>
    ELSE <<"F", "i", "l", "e", SP, "F", "o", "r", "m", "a", "t">>

\* [a-zA-Z0-9-/] and [a-z0-9-]
PageChars == Range(LowerLetters) \cup Range(UpperLetters) \cup Digits \cup {"-", "/"}
AnchorChars == Range(LowerLetters) \cup Digits \cup {"-"}

DocsPrefix == <<"(", "/", "d", "o", "c", "s", "/">>

\* r"...(?P<page>[a-zA-Z0-9-/]+?\.md)#?(?P<anchor>[a-z0-9-]+?)?\)": the match
\* of what follows the page, ".md" starting at q: [matched, anchor, end]
PageTail(t, q) ==
    LET r == IF q + 3 <= Len(t) /\ t[q + 3] = "#" THEN q + 4 ELSE q + 3
        e == peek_while_offset(t, r - 1, AnchorChars) + 1
    IN [matched |-> e <= Len(t) /\ t[e] = ")", anchor |-> SubSeq(t, r, e - 1), end |-> e]

\* where ".md" can start, the title ending before j
PageEnds(t, j) ==
    { q \in (j + 9)..(Len(t) - 2) :
        /\ \A x \in (j + 8)..(q - 1) : t[x] \in PageChars
        /\ SubSeq(t, q, q + 2) = <<".", "m", "d">>
        /\ PageTail(t, q).matched }

PageTitleEnds(t, i) ==
    { j \in (i + 2)..(Len(t) - 7) :
        /\ t[j] = "]"
        /\ SubSeq(t, j + 1, j + 7) = DocsPrefix
        /\ NoNewlineIn(t, i + 1, j - 1)
        /\ PageEnds(t, j) # {} }

\* repl of the second re.sub of rewrite_links
page_repl(title, page, anchor) ==
    LET section == slugify(section_from_page(page))
        stem == SubSeq(page, 1, Len(page) - 3)
        _id == IF anchor # <<>>
               THEN <<"#">> \o section \o <<"-">> \o stem \o <<"-">> \o anchor
               ELSE <<"#">> \o section \o <<"-">> \o stem
    IN <<"[">> \o title \o <<"]", "(">> \o _id \o <<")">>

RECURSIVE sub_page(_, _)
\* the second re.sub of rewrite_links, from position i on
sub_page(t, i) ==
    IF i > Len(t) THEN <<>>
    ELSE IF t[i] = "[" /\ PageTitleEnds(t, i) # {}
         THEN LET j == SetMin(PageTitleEnds(t, i))
                  q == SetMin(PageEnds(t, j))
                  tail == PageTail(t, q)
              IN page_repl(SubSeq(t, i + 1, j - 1), SubSeq(t, j + 8, q + 2), tail.anchor)
                     \o sub_page(t, tail.end + 1)
         ELSE <<t[i]>> \o sub_page(t, i + 1)

OfType(h, ch, types) == SelectSeq(ch, LAMBDA o : h[o].type \in types)

RECURSIVE inline_each(_, _, _)
\* "for p in p_nodes: p.content = re.sub(...)" of inline_ref_link
inline_each(h, p_nodes, refs) ==
    IF p_nodes = <<>> THEN h
    ELSE LET p == Head(p_nodes)
         IN inline_each([h EXCEPT ![p].content = sub_ref(h[p].content, 1, refs)],
                        Tail(p_nodes), refs)

\* mutant: the RefLink nodes are not removed
inline_ref_link_keeps_ref_nodes(h, ch) ==
    LET p_nodes == OfType(h, ch, {"Paragraph"})
        ref_nodes == OfType(h, ch, {"RefLink"})
    IN [heap |-> inline_each(h, p_nodes, Deref(h, ref_nodes)),
        children |-> ch]

\* inline_ref_link: the heap and the children list of md afterwards
inline_ref_link(h, ch) ==
    LET p_nodes == OfType(h, ch, {"Paragraph"})
        ref_nodes == OfType(h, ch, {"RefLink"})
    IN [heap |-> inline_each(h, p_nodes, Deref(h, ref_nodes)),
        children |-> remove_nodes(ch, Range(ref_nodes))]

RECURSIVE rewrite_links_headers_each(_, _, _)
rewrite_links_headers_each(h, headers, prefix) ==
    IF headers = <<>> THEN h
    ELSE LET o == Head(headers)
         IN rewrite_links_headers_each([h EXCEPT ![o] = add_header_id(h[o], prefix)],
                                       Tail(headers), prefix)

\* rewrite_links, the headers: "for header in headers: add_header_id(...)"
rewrite_links_headers(h, ch, prefix) ==
    rewrite_links_headers_each(h, OfType(h, ch, {"Header"}), prefix)

RECURSIVE sub_anchor_each(_, _, _)
sub_anchor_each(h, nodes, prefix) ==
    IF nodes = <<>> THEN h
    ELSE LET o == Head(nodes)
         IN sub_anchor_each([h EXCEPT ![o].content = sub_anchor(h[o].content, 1, prefix)],
                            Tail(nodes), prefix)

RECURSIVE sub_page_each(_, _)
sub_page_each(h, nodes) ==
    IF nodes = <<>> THEN h
    ELSE LET o == Head(nodes)
         IN sub_page_each([h EXCEPT ![o].content = sub_page(h[o].content, 1)], Tail(nodes))

\* rewrite_links, the two loops over the Paragraph and Table nodes
rewrite_links_nodes(h, ch, prefix) ==
    LET nodes == OfType(h, ch, {"Paragraph", "Table"})
    IN sub_page_each(sub_anchor_each(h, nodes, prefix), nodes)

(***************************************************************************)
(* build_standalone_md.py : add_sections                                    *)
(***************************************************************************)
MaxSections == 2
MaxFiles == 2

\* the section titles, the file stems and the file texts given to add_sections
SectionTitles == { <<"A">>, <<"a">> }
FileStems == { <<"b">>, <<"c">> }
FileTexts ==
    { <<"#", SP, "O", NL, NL, "x", SP, "[", "r", "]", SP, "[", "y", "]", "(", "#", "o", ")", NL, NL, "[", "r", "]", ":", SP, "u", NL>>,
      <<"#", SP, "O", NL, NL, "[", "p", "]", "(", "/", "d", "o", "c", "s", "/", "h", "o", "m", "e", ".", "m", "d", "#", "o", ")", NL>> }

\* The step add_sections (rewrite_links included) takes after a step, for one
\* file: the order of the statements of its loop body
NextStep_anchors_first(step) ==
    CASE step = "parse" -> "indent"
      [] step = "indent" -> "add_header_id"
      [] step = "add_header_id" -> "inline_ref_link"
      [] step = "inline_ref_link" -> "rewrite_links"
      [] step = "rewrite_links" -> "tables"
      [] step = "tables" -> "extend"
      [] OTHER -> "files"

NextStep(step) ==
    CASE step = "parse" -> "indent"
      [] step = "indent" -> "inline_ref_link"
      [] step = "inline_ref_link" -> "add_header_id"
      [] step = "add_header_id" -> "rewrite_links"
      [] step = "rewrite_links" -> "tables"
      [] step = "tables" -> "extend"
      [] OTHER -> "files"

\* anchors_prefix of add_sections
anchors_prefix(title, stem) == slugify(title \o <<SP>> \o stem)

\* the oids of n objects allocated on the heap h
NewOids(h, n) == [i \in 1..n |-> Len(h) + i]

InitMerge ==
    /\ heap = <<>>
    /\ docs = [acc |-> <<>>, src |-> <<>>]
    /\ ret = NoRet
    /\ calls = <<>> /\ snaps = <<>>
    /\ job = [pc |-> "idle", title |-> PyNone, stem |-> <<>>, sections |-> 0, merged |-> <<>>]
    /\ log = <<>>
    /\ text = <<>> /\ buffer = <<>> /\ offset = 0 /\ children = <<>>
    /\ pc = "idle" /\ pass = 0 /\ first = <<>> /\ spans = <<>>

\* add_sections is called: "if title: add_section_header(doc, title)"
AddSections(title) ==
    /\ job.pc = "idle"
    /\ job.sections < MaxSections
    /\ IF Truthy(title)
       THEN LET node == add_header_id(Header(title, 1), PyNone)
                ws == Node("Whitespace", <<NL>>)
            IN /\ heap' = heap \o <<node, ws>>
               /\ docs' = [docs EXCEPT !.acc = add_child(add_child(@, Len(heap) + 1),
                                                          Len(heap) + 2)]
       ELSE UNCHANGED <<heap, docs>>
    /\ job' = [job EXCEPT !.pc = "files", !.title = title, !.sections = @ + 1]
    /\ log' = <<>>
    /\ UNCHANGED <<ret, calls, snaps, parseVars>>

\* "for file in files": file_md = markdown.parse_markdown(text=text)
LoadFile(stem, t) ==
    /\ job.pc = "files"
    /\ Len(job.merged) < MaxFiles
    /\ LET nodes == parse_markdown(t)
       IN /\ heap' = heap \o nodes
          /\ docs' = [docs EXCEPT !.src = NewOids(heap, Len(nodes))]
          /\ job' = [job EXCEPT !.pc = NextStep("parse"), !.stem = stem,
                                !.merged = Append(@, [title |-> job.title, stem |-> stem,
                                                      lo |-> Len(heap) + 1,
                                                      hi |-> Len(heap) + Len(nodes)])]
    /\ log' = <<>>
    /\ UNCHANGED <<ret, calls, snaps, parseVars>>

\* the loop over the files ends: add_sections returns
ReturnSections ==
    /\ job.pc = "files"
    /\ job' = [job EXCEPT !.pc = "idle"]
    /\ UNCHANGED <<heap, docs, log, ret, calls, snaps, parseVars>>

Step(step, h, ch) ==
    /\ job.pc = step
    /\ heap' = h
    /\ docs' = [docs EXCEPT !.src = ch]
    /\ log' = Append(log, step)
    /\ job' = [job EXCEPT !.pc = NextStep(step)]
    /\ UNCHANGED <<ret, calls, snaps, parseVars>>

\* file_md.indent()
StepIndent == Step("indent", indent(heap, docs.src, 1), docs.src)

\* inline_ref_link(md=file_md)
StepInlineRefLink ==
    Step("inline_ref_link", inline_ref_link(heap, docs.src).heap,
         inline_ref_link(heap, docs.src).children)

\* rewrite_links: the loop of add_header_id over the headers
StepAddHeaderId ==
    Step("add_header_id",
         rewrite_links_headers(heap, docs.src, anchors_prefix(job.title, job.stem)),
         docs.src)

\* rewrite_links: the two loops over the Paragraph and Table nodes
StepRewriteLinks ==
    Step("rewrite_links",
         rewrite_links_nodes(heap, docs.src, anchors_prefix(job.title, job.stem)),
         docs.src)

\* rewrite_links: the loop over the tables. parse_markdown constructs no
\* Table, so the loop has no iteration.
StepTables ==
    /\ OfType(heap, docs.src, {"Table"}) = <<>>
    /\ Step("tables", heap, docs.src)

\* file_md.add_child(hr); doc.extend(file_md)
StepExtend ==
    /\ job.pc = "extend"
    /\ LET hr == Node("Paragraph", <<NL, NL, "<", "h", "r", ">", NL, NL>>)
           file_md == add_child(docs.src, Len(heap) + 1)
       IN /\ heap' = Append(heap, hr)
          /\ docs' = [acc |-> extend(docs.acc, file_md), src |-> file_md]
    /\ log' = Append(log, "extend")
    /\ job' = [job EXCEPT !.pc = NextStep("extend")]
    /\ UNCHANGED <<ret, calls, snaps, parseVars>>

NextMerge ==
    \/ \E title \in SectionTitles : AddSections(title)
    \/ \E stem \in FileStems, t \in FileTexts : LoadFile(stem, t)
    \/ ReturnSections
    \/ StepIndent
    \/ StepInlineRefLink
    \/ StepAddHeaderId
    \/ StepRewriteLinks
    \/ StepTables
    \/ StepExtend

SpecMerge == InitMerge /\ [][NextMerge]_vars

(***************************************************************************)
(* Properties of add_sections (SpecMerge)                                   *)
(***************************************************************************)
IsPrefix(a, b) == Len(a) <= Len(b) /\ SubSeq(b, 1, Len(a)) = a

\* the steps in the order C8 states them
StatedOrder ==
    <<"indent", "add_header_id", "inline_ref_link", "rewrite_links", "tables", "extend">>

\* the steps in the order of the statements of add_sections and rewrite_links
CodeOrder ==
    <<"indent", "inline_ref_link", "add_header_id", "rewrite_links", "tables", "extend">>

\* C8 as stated: the steps applied to a file are, in order, indent, anchor
\* assignment, reference-link inlining, link rewriting, table realignment,
\* extend.
C8_StatedOrder == IsPrefix(log, StatedOrder)

\* C8 amended: the steps applied to a file are, in order, indent,
\* reference-link inlining, anchor assignment, link rewriting, table
\* realignment, and only then the extend; no step changes a node that is
\* in the accumulator, whose children list only grows at its end.
C8_CodeOrderThenExtend ==
    /\ [](IsPrefix(log, CodeOrder))
    /\ [][/\ IsPrefix(docs.acc, docs'.acc)
           /\ \A i \in 1..Len(docs.acc) : heap'[docs.acc[i]] = heap[docs.acc[i]]
           /\ (docs'.acc # docs.acc /\ job.pc # "idle") => log' = CodeOrder]_vars

\* C8 reached: a second file went through every step and was extended into
\* the accumulator, its headers indented and given ids
C8_Witness ==
    /\ log = CodeOrder
    /\ Len(job.merged) = 2
    /\ \E i \in 1..Len(docs.acc) : heap[docs.acc[i]].id # NoStr /\ heap[docs.acc[i]].level = 2

\* the headers of the accumulator that came from the k-th merged file
FileHeaders(k) ==
    { o \in Range(docs.acc) :
        heap[o].type = "Header" /\ job.merged[k].lo <= o /\ o <= job.merged[k].hi }

HasId(n) == n.type = "Header" /\ n.id # NoStr

\* what C9 says the content of a header with an id is
ContentWithId(n) ==
    Repeat("#", n.level) \o <<SP>> \o n.title \o <<SP, "{", "#">> \o n.id \o <<"}", NL>>

\* C9: a header given an id has the id prefix-slug(title), or slug(title)
\* without a prefix, and a content of level "#", a space, the title, " {#id}"
\* and a newline.
C9_IdAndContent ==
    \A o \in 1..Len(heap) :
        HasId(heap[o]) =>
            /\ \/ heap[o].id = slugify(heap[o].title)
               \/ \E k \in 1..Len(job.merged) :
                     heap[o].id = anchors_prefix(job.merged[k].title, job.merged[k].stem)
                                      \o <<"-">> \o slugify(heap[o].title)
            /\ heap[o].content = ContentWithId(heap[o])

\* C10 as stated: two headers of the same title from two files merged under
\* distinct (section title, file stem) pairs have different ids.
C10_DistinctPairsDistinctIds ==
    \A k1, k2 \in 1..Len(job.merged) :
        (<<job.merged[k1].title, job.merged[k1].stem>>
            # <<job.merged[k2].title, job.merged[k2].stem>>) =>
            \A o1 \in FileHeaders(k1), o2 \in FileHeaders(k2) :
                heap[o1].title = heap[o2].title => heap[o1].id # heap[o2].id

\* C10 amended: two headers of the same title from two files whose prefixes
\* slugify(section title + " " + file stem) differ have different ids.
C10_DistinctPrefixesDistinctIds ==
    \A k1, k2 \in 1..Len(job.merged) :
        (anchors_prefix(job.merged[k1].title, job.merged[k1].stem)
            # anchors_prefix(job.merged[k2].title, job.merged[k2].stem)) =>
            \A o1 \in FileHeaders(k1), o2 \in FileHeaders(k2) :
                heap[o1].title = heap[o2].title => heap[o1].id # heap[o2].id

\* C10 reached: two merged files of different prefixes, each with a header
\* of the same title
C10_Witness ==
    /\ Len(job.merged) = 2
    /\ job.merged[1].title # job.merged[2].title
    /\ anchors_prefix(job.merged[1].title, job.merged[1].stem)
           # anchors_prefix(job.merged[2].title, job.merged[2].stem)
    /\ \E o1 \in FileHeaders(1), o2 \in FileHeaders(2) :
          /\ heap[o1].title = heap[o2].title
          /\ HasId(heap[o1]) /\ HasId(heap[o2])

(***************************************************************************)
(* build_standalone_md.py : inline_ref_link on a parsed document            *)
(***************************************************************************)
MaxInlinePieces == 4

\* the pieces the texts given to parse_markdown are made of
InlineFragments ==
    { <<"x">>, <<"[">>, <<"]">>, <<"[", "r", "]">>, <<"[", "t", "]">>, <<NL>>,
      <<"[", "r", "]", ":", SP, "u", SP, NL>> }

\* the text of a test of inline_ref_link, and the example of add_sections
InlineExamples ==
    { <<"#", SP, "T", "i", "t", "l", "e", NL, NL, "S", "o", "m", "e", SP, "[", "r", "e", "f",
      "]", SP, "t", "e", "x", "t", ".", NL, NL, "[", "r", "e", "f", "]", ":", SP, "h", "t",
      "t", "p", ":", "/", "/", "x", NL>>,
      <<"S", "o", "m", "e", SP, "b", "l", "a", SP, "b", "a", "l", SP, "[", "a", SP, "r", "e",
      "f", "e", "r", "e", "n", "c", "e", "]", "[", "r", "e", "f", "]", NL, "[", "r", "e", "f",
      "]", ":", SP, "h", "t", "t", "p", "s", ":", "/", "/", "f", "o", "o", ".", "c", "o", "m",
      NL>>,
      <<"S", "o", "m", "e", SP, "b", "l", "a", SP, "b", "a", "l", SP, "[", "a", SP, "r", "e",
      "f", "e", "r", "e", "n", "c", "e", "]", "[", "r", "e", "f", "]", NL, NL, "[", "r", "e",
      "f", "]", ":", SP, "h", "t", "t", "p", "s", ":", "/", "/", "f", "o", "o", ".", "c", "o",
      "m", NL>> }

\* the examples and the texts made of at most n fragments
InlineTexts(n) ==
    InlineExamples \cup
    UNION { { Concat(ps) : ps \in [1..k -> InlineFragments] } : k \in 0..n }

RECURSIVE finditer_ref(_, _)
\* the groups "ref" of the matches re.sub(r"\[(?P<ref>.+?)]", repl, t) hands to
\* repl, in order, from position i on
finditer_ref(t, i) ==
    IF i > Len(t) THEN <<>>
    ELSE IF t[i] = "[" /\ RefEnds(t, i) # {}
         THEN LET j == SetMin(RefEnds(t, i))
              IN <<SubSeq(t, i + 1, j - 1)>> \o finditer_ref(t, j + 1)
         ELSE finditer_ref(t, i + 1)

\* sys.stderr.write(f"No ref for [{ref}]\n")
NoRefMsg(ref) == <<"N", "o", SP, "r", "e", "f", SP, "f", "o", "r", SP, "[">> \o ref \o <<"]", NL>>

\* sys.stderr.write(f"Inline `[{ref}]` to `{new}`\n")
InlineMsg(ref, new) ==
    <<"I", "n", "l", "i", "n", "e", SP, BQ, "[">> \o ref \o <<"]", BQ, SP, "t", "o", SP, BQ>> \o new \o <<BQ, NL>>

\* what repl of inline_ref_link writes to stderr for one match
inline_repl_stderr(ref, ref_nodes) ==
    LET found == SelectSeq(ref_nodes, LAMBDA n : n.ref = ref)
    IN IF found = <<>> THEN NoRefMsg(ref)
       ELSE InlineMsg(ref, inline_repl(ref, ref_nodes))

RECURSIVE inline_each_stderr(_, _, _)
\* the writes to stderr of the loop over p_nodes, in order
inline_each_stderr(h, p_nodes, refs) ==
    IF p_nodes = <<>> THEN <<>>
    ELSE LET matches == finditer_ref(h[Head(p_nodes)].content, 1)
         IN [k \in 1..Len(matches) |-> inline_repl_stderr(matches[k], refs)]
                \o inline_each_stderr(h, Tail(p_nodes), refs)

\* the writes to stderr of inline_ref_link
inline_ref_link_stderr(h, ch) ==
    inline_each_stderr(h, OfType(h, ch, {"Paragraph"}), Deref(h, OfType(h, ch, {"RefLink"})))

\* file_md = markdown.parse_markdown(text=text), for some text
InitInline ==
    /\ text \in InlineTexts(MaxInlinePieces)
    /\ heap = parse_markdown(text)
    /\ docs = [acc |-> <<>>, src |-> NewOids(<<>>, Len(parse_markdown(text)))]
    /\ ret = NoRet
    /\ calls = <<>> /\ snaps = <<>>
    /\ job = NoJob /\ log = <<>>
    /\ buffer = <<>> /\ offset = 0 /\ children = <<>>
    /\ pc = "idle" /\ pass = 0 /\ first = <<>> /\ spans = <<>>

\* inline_ref_link(md=file_md)
InlineRefLink ==
    /\ log = <<>>
    /\ heap' = inline_ref_link(heap, docs.src).heap
    /\ docs' = [docs EXCEPT !.src = inline_ref_link(heap, docs.src).children]
    /\ ret' = [op |-> "inline_ref_link", doc |-> "src", arg |-> {}, raised |-> "no",
               node |-> {}, txt |-> <<>>,
               stderr |-> inline_ref_link_stderr(heap, docs.src)]
    /\ snaps' = <<heap>>
    /\ log' = <<"inline_ref_link">>
    /\ UNCHANGED <<calls, job, parseVars>>

\* file_md.to_text()
InlineToText ==
    /\ log = <<"inline_ref_link">>
    /\ ret' = [ret EXCEPT !.txt = to_text(Deref(heap, docs.src))]
    /\ log' = <<"inline_ref_link", "to_text">>
    /\ UNCHANGED <<heap, docs, calls, snaps, job, parseVars>>

NextInline == InlineRefLink \/ InlineToText

SpecInline == InitInline /\ [][NextInline]_vars

(***************************************************************************)
(* Properties of inline_ref_link (SpecInline)                               *)
(***************************************************************************)
Inlined == log # <<>>
Serialized == Len(log) = 2

\* the document given to inline_ref_link: its nodes, its RefLink objects
ChildrenBefore == NewOids(<<>>, Len(snaps[1]))
RefsBefore == Deref(snaps[1], OfType(snaps[1], ChildrenBefore, {"RefLink"}))
ParagraphsBefore == { o \in 1..Len(snaps[1]) : snaps[1][o].type = "Paragraph" }

OccursAt(t, i, w) == i + Len(w) - 1 <= Len(t) /\ SubSeq(t, i, i + Len(w) - 1) = w

RECURSIVE RewriteLabels(_, _, _)
\* t from position i on, every occurrence of "[label]", label the ref of one
\* of refs, replaced by "[label](target)", the target being the stripped link
\* of the first such RefLink
RewriteLabels(t, i, refs) ==
    IF i > Len(t) THEN <<>>
    ELSE LET hits == { k \in 1..Len(refs) : OccursAt(t, i, <<"[">> \o refs[k].ref \o <<"]">>) }
         IN IF hits # {}
            THEN LET n == refs[SetMin(hits)]
                 IN <<"[">> \o n.ref \o <<"]", "(">> \o Strip(n.link) \o <<")">>
                        \o RewriteLabels(t, i + Len(n.ref) + 2, refs)
            ELSE <<t[i]>> \o RewriteLabels(t, i + 1, refs)

\* the lines of a text
LinesOf(t) ==
    LET ends == { i \in 1..Len(t) : t[i] = NL } \cup {Len(t) + 1}
        starts == {1} \cup { i + 1 : i \in { j \in 1..Len(t) : t[j] = NL } }
    IN { SubSeq(t, a, SetMin({ e \in ends : e >= a }) - 1) : a \in starts }

HasDefinitionLine(t) == \E line \in LinesOf(t) : re_match_ref_line(line)

\* every "[" of t opens a label: the next bracket on its line, if any, is a
\* "]" with at least one character before it
FlatBrackets(t) ==
    \A i \in 1..Len(t) :
        t[i] = "[" =>
            LET later == { j \in (i + 1)..Len(t) : t[j] \in {"[", "]", NL} }
            IN \/ later = {}
               \/ t[SetMin(later)] = NL
               \/ t[SetMin(later)] = "]" /\ SetMin(later) > i + 1

NoClosingBracket(ref) == \A k \in 1..Len(ref) : ref[k] # "]"

Resolved(ref) == \E k \in 1..Len(RefsBefore) : RefsBefore[k].ref = ref

\* the labels inline_ref_link met in a Paragraph, in order
Matches(o) == finditer_ref(snaps[1][o].content, 1)

RECURSIVE RewriteTwoPart(_, _, _)
\* t from position i on, every "[text][label]", label the ref of one of refs,
\* replaced by "[text](target)"
RewriteTwoPart(t, i, refs) ==
    IF i > Len(t) THEN <<>>
    ELSE LET hits == { <<j, k>> \in (i..Len(t)) \X (1..Len(refs)) :
                         /\ t[i] = "[" /\ j > i + 1 /\ t[j] = "]"
                         /\ \A m \in (i + 1)..(j - 1) : t[m] \notin {"[", "]", NL}
                         /\ OccursAt(t, j + 1, <<"[">> \o refs[k].ref \o <<"]">>) }
         IN IF hits # {}
            THEN LET jk == CHOOSE x \in hits : \A y \in hits : x[2] <= y[2]
                     n == refs[jk[2]]
                 IN SubSeq(t, i, jk[1]) \o <<"(">> \o Strip(n.link) \o <<")">>
                        \o RewriteTwoPart(t, jk[1] + Len(n.ref) + 3, refs)
            ELSE <<t[i]>> \o RewriteTwoPart(t, i + 1, refs)

\* C12: a usage "[text][ref]" in a Paragraph, "[ref]: url" being a RefLink of
\* the document, becomes "[text](url)".
C12_TwoPartUsageInlined ==
    Inlined =>
        \A o \in ParagraphsBefore :
            RewriteTwoPart(snaps[1][o].content, 1, RefsBefore) # snaps[1][o].content
                => heap[o].content = RewriteTwoPart(snaps[1][o].content, 1, RefsBefore)

\* C13 as stated: a Paragraph with a "[label]" that is the ref of no RefLink
\* keeps its content, a diagnostic is written for the label, nothing is
\* raised.
C13_UnresolvedKeepsParagraph ==
    Inlined =>
        /\ ret.raised = "no"
        /\ \A o \in ParagraphsBefore :
              \A k \in 1..Len(Matches(o)) :
                  ~Resolved(Matches(o)[k]) =>
                      /\ heap[o].content = snaps[1][o].content
                      /\ \E m \in 1..Len(ret.stderr) : ret.stderr[m] = NoRefMsg(Matches(o)[k])

RECURSIVE AddedLength(_)
\* the characters the resolved labels of a list of labels gain
AddedLength(labels) ==
    IF labels = <<>> THEN 0
    ELSE (IF Resolved(Head(labels))
          THEN Len(Strip(SelectSeq(RefsBefore, LAMBDA n : n.ref = Head(labels))[1].link)) + 2
          ELSE 0)
         + AddedLength(Tail(labels))

RECURSIVE UnresolvedMsgs(_)
\* the diagnostics of the labels without a RefLink, over a list of Paragraphs
UnresolvedMsgs(ps) ==
    IF ps = <<>> THEN <<>>
    ELSE LET un == SelectSeq(Matches(Head(ps)), LAMBDA ref : ~Resolved(ref))
         IN [k \in 1..Len(un) |-> NoRefMsg(un[k])] \o UnresolvedMsgs(Tail(ps))

IsNoRefMsg(m) == OccursAt(m, 1, <<"N", "o", SP, "r", "e", "f", SP, "f", "o", "r", SP, "[">>)

\* C13 amended: a "[label]" that is the ref of no RefLink is written back
\* unchanged: a Paragraph none of whose labels has a RefLink keeps its
\* content, any other Paragraph grows by "(target)" for each label that has
\* one and still holds the other labels; one diagnostic "No ref for [label]"
\* is written per such label, in document order; nothing is raised.
C13_UnresolvedKeepsLabel ==
    Inlined =>
        /\ ret.raised = "no"
        /\ \A o \in ParagraphsBefore :
              /\ (\A k \in 1..Len(Matches(o)) : ~Resolved(Matches(o)[k]))
                    => heap[o].content = snaps[1][o].content
              /\ Len(heap[o].content) = Len(snaps[1][o].content) + AddedLength(Matches(o))
              /\ \A k \in 1..Len(Matches(o)) :
                    ~Resolved(Matches(o)[k]) =>
                        \E i \in 1..Len(heap[o].content) :
                            OccursAt(heap[o].content, i, <<"[">> \o Matches(o)[k] \o <<"]">>)
        /\ SelectSeq(ret.stderr, IsNoRefMsg)
              = UnresolvedMsgs(OfType(snaps[1], ChildrenBefore, {"Paragraph"}))

\* C13 reached: a Paragraph with a label that has a RefLink and a label that
\* has none went through inline_ref_link
C13_Witness ==
    /\ Inlined
    /\ \E o \in ParagraphsBefore :
          /\ \E k \in 1..Len(Matches(o)) : Resolved(Matches(o)[k])
          /\ \E k \in 1..Len(Matches(o)) : ~Resolved(Matches(o)[k])
          /\ heap[o].content # snaps[1][o].content

(***************************************************************************)
(* build_standalone_md.py : rewrite_links on a parsed document              *)
(***************************************************************************)
MaxRewritePieces == 4

\* the pieces the texts given to parse_markdown are made of
RewriteFragments ==
    { <<"[", "t", "]">>, <<"(", "#", "a", ")">>, <<"x">>,
      <<"(", "/", "d", "o", "c", "s", "/", "h", "o", "m", "e", ".", "m", "d", "#", "a", ")">>,
      <<"(", "/", "d", "o", "c", "s", "/", "p", ".", "m", "d", ")">>,
      <<"(", "/", "d", "o", "c", "s", "/", "p", ".", "m", "d", "#", "a", "_", "b", ")">> }

\* the texts made of at most n fragments
RewriteTexts(n) ==
    UNION { { Concat(ps) : ps \in [1..k -> RewriteFragments] } : k \in 0..n }

\* the prefixes rewrite_links is called with
RewritePrefixes == { <<"a", "-", "b">> }

\* file_md = markdown.parse_markdown(text=text), for some text
InitRewrite ==
    /\ text \in RewriteTexts(MaxRewritePieces)
    /\ heap = parse_markdown(text)
    /\ docs = [acc |-> <<>>, src |-> NewOids(<<>>, Len(parse_markdown(text)))]
    /\ ret = NoRet
    /\ calls = <<>> /\ snaps = <<>>
    /\ job = NoJob /\ log = <<>>
    /\ buffer = <<>> /\ offset = 0 /\ children = <<>>
    /\ pc = "idle" /\ pass = 0 /\ first = <<>> /\ spans = <<>>

\* rewrite_links(md=file_md, prefix=prefix)
RewriteLinks(prefix) ==
    /\ log = <<>>
    /\ OfType(heap, docs.src, {"Table"}) = <<>>
    /\ heap' = rewrite_links_nodes(rewrite_links_headers(heap, docs.src, prefix),
                                   docs.src, prefix)
    /\ ret' = [op |-> "rewrite_links", doc |-> "src", arg |-> {prefix}, raised |-> "no",
               node |-> {}, txt |-> <<>>]
    /\ snaps' = <<heap>>
    /\ log' = <<"rewrite_links">>
    /\ UNCHANGED <<docs, calls, job, parseVars>>

\* file_md.to_text()
RewriteToText ==
    /\ log = <<"rewrite_links">>
    /\ ret' = [ret EXCEPT !.txt = to_text(Deref(heap, docs.src))]
    /\ log' = <<"rewrite_links", "to_text">>
    /\ UNCHANGED <<heap, docs, calls, snaps, job, parseVars>>

NextRewrite == (\E prefix \in RewritePrefixes : RewriteLinks(prefix)) \/ RewriteToText

SpecRewrite == InitRewrite /\ [][NextRewrite]_vars

(***************************************************************************)
(* Properties of rewrite_links (SpecRewrite)                                *)
(***************************************************************************)
Rewritten == log # <<>>

\* the first position from i on holding c, or 0
IndexFrom(t, i, c) ==
    IF \E j \in i..Len(t) : t[j] = c THEN SetMin({ j \in i..Len(t) : t[j] = c }) ELSE 0

DocsPath == <<"/", "d", "o", "c", "s", "/">>
MdExt == <<".", "m", "d">>

\* what C14 makes of a link target (the text between the parentheses)
RewriteTarget(target, prefix) ==
    IF Len(target) >= 2 /\ target[1] = "#"
    THEN <<"#">> \o prefix \o <<"-">> \o SubSeq(target, 2, Len(target))
    ELSE IF OccursAt(target, 1, DocsPath)
         THEN LET h == IndexFrom(target, 1, "#")
                  page == IF h = 0 THEN SubSeq(target, 7, Len(target))
                          ELSE SubSeq(target, 7, h - 1)
                  anchor == IF h = 0 THEN <<>> ELSE SubSeq(target, h + 1, Len(target))
              IN IF Len(page) > 3 /\ SubSeq(page, Len(page) - 2, Len(page)) = MdExt
                 THEN <<"#">> \o slugify(section_from_page(page)) \o <<"-">>
                          \o SubSeq(page, 1, Len(page) - 3)
                          \o (IF anchor = <<>> THEN <<>> ELSE <<"-">> \o anchor)
                 ELSE target
         ELSE target

RECURSIVE RewriteTargets(_, _, _)
\* t from position i on, the target of every link "[title](target)" rewritten
RewriteTargets(t, i, prefix) ==
    IF i > Len(t) THEN <<>>
    ELSE LET j == IndexFrom(t, i + 1, "]")
             k == IF j = 0 THEN 0 ELSE IndexFrom(t, j + 1, ")")
             link == /\ t[i] = "[" /\ j > i + 1 /\ k > j + 2 /\ t[j + 1] = "("
                     /\ \A m \in (i + 1)..(j - 1) : t[m] \notin {"[", NL}
                     /\ \A m \in (j + 2)..(k - 1) : t[m] \notin {"(", NL}
         IN IF link
            THEN SubSeq(t, i, j + 1) \o RewriteTarget(SubSeq(t, j + 2, k - 1), prefix)
                     \o <<")">> \o RewriteTargets(t, k + 1, prefix)
            ELSE <<t[i]>> \o RewriteTargets(t, i + 1, prefix)

\* C14: in the Paragraphs, every target "(#anchor)" becomes
\* "(#prefix-anchor)", every target "(/docs/page.md#anchor)" becomes
\* "(#section-page-anchor)", section the slug of section_from_page(page.md),
\* "-anchor" left out when there is no anchor, and nothing is raised.
C14_EveryTargetRewritten ==
    Rewritten =>
        /\ ret.raised = "no"
        /\ \A o \in 1..Len(heap) :
              heap[o].type = "Paragraph" =>
                  heap[o].content
                      = RewriteTargets(snaps[1][o].content, 1, CHOOSE p \in ret.arg : TRUE)

(***************************************************************************)
(* markdown.py : Table.reformat. The class is imported by                   *)
(* build_standalone_md.py, build_man_md.py and markdown.test.py and is not  *)
(* defined in markdown.py: it is modelled from its documentation and from   *)
(* test_normalize_table.                                                    *)
(***************************************************************************)
MaxCols == 2
MaxBodyRows == 1
MaxReformats == 2

RECURSIVE SplitOn(_, _)
\* t.split(c)
SplitOn(t, c) ==
    LET i == IndexFrom(t, 1, c)
    IN IF i = 0 THEN <<t>>
       ELSE <<SubSeq(t, 1, i - 1)>> \o SplitOn(SubSeq(t, i + 1, Len(t)), c)

\* the rows of a table: its lines that are not empty
table_rows(content) == SelectSeq(SplitOn(content, NL), LAMBDA line : line # <<>>)

\* the cells of a row, without the spaces around them
row_cells(row) ==
    LET parts == SplitOn(row, "|")
    IN [c \in 1..(Len(parts) - 2) |-> Strip(parts[c + 1])]

\* the second row is the separator row
IsSeparatorRow(r) == r = 2

\* mutant: the separator row counts in the width of a column
col_width_with_separator(cells, c) ==
    SetMax({ Len(cells[r][c]) : r \in 1..Len(cells) })

\* the width of column c: that of its widest cell, the separator row aside
col_width(cells, c) ==
    SetMax({0} \cup { Len(cells[r][c]) : r \in { x \in 1..Len(cells) : ~IsSeparatorRow(x) } })

\* mutant: no space is added after the cell
format_cell_no_margin(cell, width) ==
    <<SP>> \o cell \o Repeat(SP, width - Len(cell)) \o <<"|">>

\* a cell, left-aligned in its column, one space on each side
format_cell(cell, width) ==
    <<SP>> \o cell \o Repeat(SP, width - Len(cell)) \o <<SP, "|">>

\* a cell of the separator row
format_separator(width) == Repeat("-", width + 2) \o <<"|">>

\* row r of the reformatted table, widths being the widths of the columns
format_row(cells, widths, r) ==
    <<"|">>
    \o Concat([c \in 1..Len(cells[r]) |->
                  IF IsSeparatorRow(r) THEN format_separator(widths[c])
                  ELSE format_cell(cells[r][c], widths[c])])
    \o <<NL>>

\* Table.reformat: the content afterwards
Table_reformat(content) ==
    LET rows == table_rows(content)
        cells == [r \in 1..Len(rows) |-> row_cells(rows[r])]
        widths == [c \in 1..Len(cells[1]) |-> col_width(cells, c)]
    IN IF rows = <<>> THEN <<>>
       ELSE Concat([r \in 1..Len(rows) |-> format_row(cells, widths, r)])

\* the cells and separator cells the tables are written with
CellSources == { <<"a">>, <<SP, "b", "b", SP, SP>> }
SeparatorSources == { <<"-">>, <<"-", "-", "-", "-", "-">> }

\* a row written with the cells cs
RowOf(cs) == <<"|">> \o Concat([c \in 1..Len(cs) |-> cs[c] \o <<"|">>])

\* the table of test_normalize_table, and a table with an empty cell
TableExamples ==
    { <<"|", SP, "a", SP, "|", SP, "b", SP, "|", SP, "c", "|", NL, "|", "-", "-", "-", "|", "-",
      "-", "-", "|", "-", "-", "|", NL, "|", SP, "a", "a", "a", "a", "a", SP, "|", SP, "b",
      "b", "b", "b", "b", SP, "|", SP, "c", "c", "c", "c", SP, "|", NL, "|", SP, "d", "d", SP,
      "|", SP, "e", "e", SP, "|", SP, "f", SP, "|">>,
      <<"|", "a", "|", "|", NL, "|", "-", "|", "-", "|", NL, "|", "|", "b", SP, "c", "|", NL>> }

\* tables of a header row, a separator row and at most rows body rows, of
\* at most cols columns, with or without a newline after the last row
TableContents(cols, rows) ==
    TableExamples \cup
    UNION { UNION { { RowOf(hd) \o <<NL>> \o RowOf(sep) \o <<NL>>
                          \o Concat([r \in 1..n |-> RowOf(body[r]) \o end[r]]) :
                        hd \in [1..k -> CellSources],
                        sep \in { [c \in 1..k |-> d] : d \in SeparatorSources },
                        body \in [1..n -> [1..k -> CellSources]],
                        end \in { e \in [1..n -> {<<>>, <<NL>>}] :
                                    \A r \in 1..(n - 1) : e[r] = <<NL>> } } :
                    n \in 0..rows } :
            k \in 1..cols }

\* table = Table(content=src), for some table text
InitTable ==
    /\ text \in TableContents(MaxCols, MaxBodyRows)
    /\ heap = <<Node("Table", text)>>
    /\ docs = [acc |-> <<>>, src |-> <<1>>]
    /\ ret = NoRet
    /\ calls = <<>> /\ snaps = <<>>
    /\ job = NoJob /\ log = <<>>
    /\ buffer = <<>> /\ offset = 0 /\ children = <<>>
    /\ pc = "idle" /\ pass = 0 /\ first = <<>> /\ spans = <<>>

\* table.reformat()
Reformat ==
    /\ Len(log) < MaxReformats
    /\ heap' = [heap EXCEPT ![1].content = Table_reformat(@)]
    /\ snaps' = Append(snaps, heap)
    /\ log' = Append(log, "reformat")
    /\ UNCHANGED <<docs, ret, calls, job, parseVars>>

NextTable == Reformat

SpecTable == InitTable /\ [][NextTable]_vars

(***************************************************************************)
(* Properties of Table.reformat (SpecTable)                                 *)
(***************************************************************************)
\* the table given to reformat: its rows, the cells of its rows without the
\* spaces around them
SourceRows == table_rows(text)
SourceCells ==
    [r \in 1..Len(SourceRows) |->
        LET parts == SplitOn(SourceRows[r], "|")
        IN [c \in 1..(Len(parts) - 2) |-> Strip(parts[c + 1])]]

\* the width of the widest of the cells of column c, the separator row aside
Widest(cells, c) ==
    SetMax({0} \cup { Len(cells[r][c]) : r \in (1..Len(cells)) \ {2} })

\* the content of the table after n calls of reformat
ContentAfter(n) == IF Len(log) = n THEN heap[1].content ELSE snaps[n + 1][1].content

\* C15: after reformat every row is a line ending with a newline; in a line,
\* column c is a pipe, a space, the cell without the spaces around it, spaces
\* up to the width of the widest cell of the column, a space; in the
\* separator line it is a pipe and dashes over this width and the two
\* spaces; a pipe ends the line.
C15_ReformatAlignsColumns ==
    Len(log) >= 1 =>
        LET lines == SplitOn(ContentAfter(1), NL)
            cell == SourceCells
            rows == Len(cell)
            cols == Len(cell[1])
            widest == [c \in 1..cols |-> Widest(cell, c)]
            start[k \in 1..(cols + 1)] == IF k = 1 THEN 1 ELSE start[k - 1] + widest[k - 1] + 3
        IN /\ Len(lines) = rows + 1
           /\ lines[Len(lines)] = <<>>
           /\ \A r \in 1..rows :
                 /\ Len(lines[r]) = start[cols + 1]
                 /\ lines[r][Len(lines[r])] = "|"
                 /\ \A c \in 1..cols :
                       SubSeq(lines[r], start[c], start[c + 1] - 1)
                           = IF r = 2
                             THEN <<"|">> \o Repeat("-", widest[c] + 2)
                             ELSE <<"|", SP>> \o cell[r][c]
                                      \o Repeat(SP, widest[c] - Len(cell[r][c]))
                                      \o <<SP>>

\* C15 reached: the table of test_normalize_table, reformatted
C15_Witness ==
    /\ Len(log) = 1
    /\ text = <<"|", SP, "a", SP, "|", SP, "b", SP, "|", SP, "c", "|", NL, "|", "-", "-", "-", "|", "-",
             "-", "-", "|", "-", "-", "|", NL, "|", SP, "a", "a", "a", "a", "a", SP, "|", SP, "b",
             "b", "b", "b", "b", SP, "|", SP, "c", "c", "c", "c", SP, "|", NL, "|", SP, "d", "d", SP,
             "|", SP, "e", "e", SP, "|", SP, "f", SP, "|">>
    /\ heap[1].content = <<"|", SP, "a", SP, SP, SP, SP, SP, "|", SP, "b", SP, SP, SP, SP, SP, "|", SP, "c", SP, SP,
                        SP, SP, "|", NL, "|", "-", "-", "-", "-", "-", "-", "-", "|", "-", "-", "-", "-", "-",
                        "-", "-", "|", "-", "-", "-", "-", "-", "-", "|", NL, "|", SP, "a", "a", "a", "a", "a",
                        SP, "|", SP, "b", "b", "b", "b", "b", SP, "|", SP, "c", "c", "c", "c", SP, "|", NL, "|",
                        SP, "d", "d", SP, SP, SP, SP, "|", SP, "e", "e", SP, SP, SP, SP, "|", SP, "f", SP, SP,
                        SP, SP, "|", NL>>

\* C16: the content after a second reformat is the content after the first.
C16_ReformatIdempotent ==
    \A n \in 1..(Len(log) - 1) : ContentAfter(n + 1) = ContentAfter(n)

\* C16 reached: a table that the first reformat changed, reformatted twice
C16_Witness ==
    /\ Len(log) = 2
    /\ ContentAfter(1) # text
    /\ ContentAfter(2) = ContentAfter(1)
    /\ \E c \in 1..Len(SourceCells[1]) :
          Widest(SourceCells, c) + 2 # Len(SourceCells[2][c])

(***************************************************************************)
(* markdown.py : MarkdownDoc.toc                                            *)
(***************************************************************************)
MaxTitleLen == 3
MaxSlugCalls == 2

\* the slugify function defined inside toc
toc_slugify(value) ==
    LET ascii == nfkd_ascii_text(value)
        kept == SelectSeq(ascii, LAMBDA c : c \in WordChars \cup RegexSpaceChars \cup {"/", "-"})
        lowered == [i \in 1..Len(Strip(kept)) |-> Lower(Strip(kept)[i])]
    IN SelectSeq(collapse_dashes(lowered), LAMBDA c : c # "/")

\* dedent of the literal toc starts with
TocTitle ==
    <<"T", "a", "b", "l", "e", SP, "o", "f", SP, "C", "o", "n", "t", "e", "n", "t", "s",
    NL, "=", "=", "=", "=", "=", "=", "=", "=", "=", "=", "=", "=", "=", "=", "=", "=",
    "=", NL>>

\* the line toc adds for one header
toc_line(header) ==
    Repeat(SP, 3 * header.level) \o <<"*", SP, "[">> \o header.title
        \o <<"]", "(", "#">> \o toc_slugify(header.title) \o <<")", NL>>

RECURSIVE toc_lines(_)
toc_lines(headers) ==
    IF headers = <<>> THEN <<>> ELSE toc_line(Head(headers)) \o toc_lines(Tail(headers))

\* MarkdownDoc.toc
toc(h, ch) == TocTitle \o toc_lines(Deref(h, OfType(h, ch, {"Header"})))

(***************************************************************************)
(* slugify and toc on one title.  Specification SpecSlug.                   *)
(***************************************************************************)
SlugChars == {"a", "B", "1", "_", SP, "-", "/", EACUTE, OSLASH, "!"}

RECURSIVE TextsUpTo(_, _)
\* the texts of at most n characters of S
TextsUpTo(S, n) ==
    IF n = 0 THEN { <<>> }
    ELSE TextsUpTo(S, n - 1)
             \cup { <<c>> \o t : c \in S, t \in { u \in TextsUpTo(S, n - 1) : Len(u) = n - 1 } }

InitSlug ==
    /\ text \in TextsUpTo(SlugChars, MaxTitleLen)
    /\ heap = << Header(text, 1) >>
    /\ docs = [acc |-> <<>>, src |-> <<1>>]
    /\ ret = NoRet
    /\ calls = <<>> /\ snaps = <<>>
    /\ job = NoJob /\ log = <<>>
    /\ buffer = <<>> /\ offset = 0 /\ children = <<>>
    /\ pc = "idle" /\ pass = 0 /\ first = <<>> /\ spans = <<>>

\* slugify(text), the function of build_standalone_md.py; snaps keeps what
\* each call returned
Slugify ==
    /\ Len(snaps) < MaxSlugCalls
    /\ snaps' = Append(snaps, slugify(text))
    /\ UNCHANGED <<heap, docs, ret, calls, job, log, parseVars>>

\* md.toc() on the document holding the one header titled text
Toc ==
    /\ ret = NoRet
    /\ ret' = [op |-> "toc", doc |-> "src", arg |-> {}, raised |-> "no", node |-> {},
               txt |-> toc(heap, docs.src)]
    /\ UNCHANGED <<heap, docs, calls, snaps, job, log, parseVars>>

NextSlug == Slugify \/ Toc

SpecSlug == InitSlug /\ [][NextSlug]_vars

(***************************************************************************)
(* Properties of slugify (SpecSlug)                                         *)
(***************************************************************************)
AsciiLetters == Range(LowerLetters) \cup Range(UpperLetters)
SlugSeparators == PySpaceChars \cup {"-"}

\* the title without its diacritics
StripDiacritics(t) == [i \in 1..Len(t) |-> IF t[i] = EACUTE THEN "e" ELSE t[i]]

\* The reference: strip the diacritics, keep only the characters of keep,
\* trim, lowercase, put one hyphen for each run of whitespace and hyphens,
\* delete the slashes.
SlugReference(t, keep) ==
    LET k == SelectSeq(StripDiacritics(t), LAMBDA c : c \in keep)
        inner == { i \in 1..Len(k) : k[i] \notin PySpaceChars }
        lo == IF inner = {} THEN 1 ELSE SetMin(inner)
        hi == IF inner = {} THEN 0 ELSE CHOOSE i \in inner : \A j \in inner : j <= i
        runStart(i) == k[i] \in SlugSeparators /\ (i = lo \/ k[i - 1] \notin SlugSeparators)
        out(i) == IF k[i] = "/" THEN <<>>
                  ELSE IF k[i] \notin SlugSeparators THEN << Lower(k[i]) >>
                  ELSE IF runStart(i) THEN <<"-">>
                  ELSE <<>>
    IN Concat([n \in 1..(hi - lo + 1) |-> out(lo + n - 1)])

\* what the statement keeps: letters, digits, spaces, hyphens, slashes
StatedKept == AsciiLetters \cup {OSLASH} \cup Digits \cup PySpaceChars \cup {"-", "/"}
\* what the regular expression keeps: ASCII letters, digits, the underscore,
\* whitespace, hyphens, slashes
CodeKept == AsciiLetters \cup Digits \cup {"_"} \cup PySpaceChars \cup {"-", "/"}

\* the toc of the document holding one header of level 1 titled t, were its
\* link the slug s
TocOf(t, s) ==
    TocTitle \o <<SP, SP, SP, "*", SP, "[">> \o t \o <<"]", "(", "#">> \o s \o <<")", NL>>

Deterministic == \A i, j \in 1..Len(snaps) : snaps[i] = snaps[j]
TocAgrees == ret.op = "toc" => ret.txt = TocOf(text, slugify(text))

\* C17 as stated: slugify(title) is the reference that keeps letters, digits,
\* spaces, hyphens and slashes only; equal inputs give equal outputs; the
\* link toc writes for a title is the slug build_standalone_md.py computes.
C17_SlugIsStatedReference ==
    /\ \A i \in 1..Len(snaps) : snaps[i] = SlugReference(text, StatedKept)
    /\ Deterministic
    /\ TocAgrees

\* C17 as the code has it: slugify(title) is the reference that keeps ASCII
\* letters, digits, underscores, whitespace, hyphens and slashes (a character
\* outside ASCII survives only as the ASCII letter under its diacritic);
\* equal inputs give equal outputs; the link toc writes for a title is the
\* slug build_standalone_md.py computes.
C17_SlugIsReferenceKeepingUnderscore ==
    /\ \A i \in 1..Len(snaps) : snaps[i] = SlugReference(text, CodeKept)
    /\ Deterministic
    /\ TocAgrees

\* C17 reached: slugify was called twice and toc once on "B /", and on a
\* title with an underscore
C17_Witness ==
    /\ Len(snaps) = 2 /\ ret.op = "toc"
    /\ \/ text = <<"B", SP, "/">> /\ snaps[2] = <<"b", "-">>
       \/ text = <<"a", "_", "B">> /\ snaps[2] = <<"a", "_", "b">>

(***************************************************************************)
(* toc on a document.  Specification SpecToc.                               *)
(***************************************************************************)
MaxTocNodes == 2
MaxTocLevel == 2
MaxTocIndents == 1

TocTitles == { <<"a">>, <<"B", SP, "c">>, <<"a", "_", "/", EACUTE>> }

\* the nodes a document is made of: headers and a paragraph
TocNodes ==
    { Header(t, lv) : t \in TocTitles, lv \in 1..MaxTocLevel }
        \cup { Node("Paragraph", <<"x", NL>>) }

InitToc ==
    /\ \E n \in 0..MaxTocNodes : heap \in [1..n -> TocNodes]
    /\ docs = [acc |-> <<>>, src |-> NewOids(<<>>, Len(heap))]
    /\ ret = NoRet
    /\ calls = <<>> /\ snaps = <<>>
    /\ job = NoJob /\ log = <<>>
    /\ text = <<>> /\ buffer = <<>> /\ offset = 0 /\ children = <<>>
    /\ pc = "idle" /\ pass = 0 /\ first = <<>> /\ spans = <<>>

\* md.indent(count)
TocIndent(count) ==
    /\ Len(calls) < MaxTocIndents
    /\ heap' = indent(heap, docs.src, count)
    /\ calls' = Append(calls, count)
    /\ ret' = NoRet
    /\ UNCHANGED <<docs, snaps, job, log, parseVars>>

\* md.toc()
TocDoc ==
    /\ ret' = [op |-> "toc", doc |-> "src", arg |-> {}, raised |-> "no", node |-> {},
               txt |-> toc(heap, docs.src)]
    /\ UNCHANGED <<heap, docs, calls, snaps, job, log, parseVars>>

NextToc == (\E count \in {-2, -1, 1} : TocIndent(count)) \/ TocDoc

SpecToc == InitToc /\ [][NextToc]_vars

(***************************************************************************)
(* Properties of toc (SpecToc)                                              *)
(***************************************************************************)
\* the lines of the returned text, without the empty tail after the last
\* newline
TocLines == LET ls == SplitOn(ret.txt, NL) IN SubSeq(ls, 1, Len(ls) - 1)
TocHeaders == Deref(heap, OfType(heap, docs.src, {"Header"}))

\* the number of spaces a line starts with
LeadingSpaces(l) == Len(l) - Len(LStrip(l))

\* the bullet of a header, without its indentation
Bullet(header) ==
    <<"*", SP, "[">> \o header.title \o <<"]", "(", "#">> \o slugify(header.title) \o <<")">>

\* C18: the text toc returns ends with a newline and is the two title
\* lines, then one line per Header of the document, in order; the line
\* starts with 3 * level spaces and goes on with "* [title](#slug(title))".
C18_OneBulletPerHeader ==
    ret.op = "toc" =>
        /\ ret.txt # <<>> /\ ret.txt[Len(ret.txt)] = NL
        /\ Len(TocLines) = 2 + Len(TocHeaders)
        /\ TocLines[1] \o <<NL>> \o TocLines[2] \o <<NL>> = TocTitle
        /\ \A i \in 1..Len(TocHeaders) :
              /\ LeadingSpaces(TocLines[2 + i]) = 3 * TocHeaders[i].level
              /\ LStrip(TocLines[2 + i]) = Bullet(TocHeaders[i])

(***************************************************************************)
(* Two documents after extend.  Specification SpecExtend.                   *)
(* children holds the list objects, docs the list each document's          *)
(* children attribute is bound to, heap the node objects.                   *)
(***************************************************************************)
MaxOwnLen == 1
MaxLaterOps == 1

\* mutant: the document takes the list of the other
MarkdownDoc_extend_takes_list(ds, ls, self, other) ==
    [docs |-> [ds EXCEPT ![self] = ds[other]], children |-> ls]

\* self.children.extend(other.children): the list of self grows in place
MarkdownDoc_extend(ds, ls, self, other) ==
    [docs |-> ds, children |-> [ls EXCEPT ![ds[self]] = extend(ls[ds[self]], ls[ds[other]])]]

ChildrenOf(d) == children[docs[d]]

\* the node objects of the two documents: a Header, a RefLink, a Paragraph
ExtendNodes == {1, 2, 3}
\* the lists of at most n of them
ExtendLists(n) == UNION { [1..k -> ExtendNodes] : k \in 0..n }
Other(d) == IF d = "acc" THEN "src" ELSE "acc"

InitExtend ==
    /\ heap = Pool
    /\ \E a, b \in ExtendLists(MaxOwnLen) : children = <<a, b>>
    /\ docs = [acc |-> 1, src |-> 2]
    /\ ret = NoRet
    /\ calls = <<>> /\ snaps = <<>>
    /\ job = NoJob /\ log = <<>>
    /\ text = <<>> /\ buffer = <<>> /\ offset = 0
    /\ pc = "idle" /\ pass = 0 /\ first = <<>> /\ spans = <<>>

afterVars == <<calls, snaps, job, text, buffer, offset, pc, pass, first, spans>>

\* acc.extend(src); snaps keeps the state it was called in, log counts the
\* calls made
ExtendAcc ==
    /\ log = <<>>
    /\ docs' = MarkdownDoc_extend(docs, children, "acc", "src").docs
    /\ children' = MarkdownDoc_extend(docs, children, "acc", "src").children
    /\ snaps' = << [heap |-> heap, docs |-> docs, children |-> children] >>
    /\ ret' = Ret("extend", "acc", {})
    /\ log' = <<"extend">>
    /\ UNCHANGED <<heap, calls, job, text, buffer, offset, pc, pass, first, spans>>

Later(op, d) ==
    /\ log # <<>> /\ Len(log) <= MaxLaterOps
    /\ ret' = Ret(op, d, {})
    /\ log' = Append(log, "later")
    /\ UNCHANGED afterVars

\* d.indent(count)
IndentAfter(d, count) ==
    /\ Later("indent", d)
    /\ heap' = indent(heap, ChildrenOf(d), count)
    /\ UNCHANGED <<docs, children>>

\* d.add_child(o)
AddChildAfter(d, o) ==
    /\ Later("add_child", d)
    /\ children' = [children EXCEPT ![docs[d]] = add_child(@, o)]
    /\ UNCHANGED <<heap, docs>>

\* d.insert_node(start, o), start being a node of d
InsertNodeAfter(d, start, o) ==
    /\ Contains(ChildrenOf(d), start)
    /\ Later("insert_node", d)
    /\ children' = [children EXCEPT ![docs[d]] = insert_node(@, start, o)]
    /\ UNCHANGED <<heap, docs>>

\* d.remove_nodes(nodes): children is bound to a new list
RemoveNodesAfter(d, nodes) ==
    /\ Later("remove_nodes", d)
    /\ children' = Append(children, remove_nodes(ChildrenOf(d), nodes))
    /\ docs' = [docs EXCEPT ![d] = Len(children) + 1]
    /\ UNCHANGED heap

NextExtend ==
    \/ ExtendAcc
    \/ \E d \in DocNames, count \in {-1, 1} : IndentAfter(d, count)
    \/ \E d \in DocNames, o \in ExtendNodes : AddChildAfter(d, o)
    \/ \E d \in DocNames, start, o \in ExtendNodes : InsertNodeAfter(d, start, o)
    \/ \E d \in DocNames, o \in ExtendNodes : RemoveNodesAfter(d, {o})

SpecExtend == InitExtend /\ [][NextExtend]_vars

(***************************************************************************)
(* Properties of extend (SpecExtend)                                        *)
(***************************************************************************)
Extended == log # <<>>
DocText(d) == to_text(Deref(heap, ChildrenOf(d)))
ListOps == {"add_child", "insert_node", "remove_nodes"}

\* C19 as stated: once acc.extend(src) is done, no indent, add_child,
\* insert_node or remove_nodes on one of the two documents changes what
\* to_text() of the other returns.
C19_NoSharedState ==
    [][ Extended => \A d \in DocNames :
                        ret'.doc = d => DocText(Other(d))' = DocText(Other(d)) ]_vars

\* C19 for the children lists: once acc.extend(src) is done, no add_child,
\* insert_node or remove_nodes on one of the two documents changes what
\* to_text() of the other returns.
C19_ListsNotShared ==
    [][ (Extended /\ ret'.op \in ListOps)
            => \A d \in DocNames :
                  ret'.doc = d => DocText(Other(d))' = DocText(Other(d)) ]_vars

\* C19 reached: after acc.extend(src), a node was added to src, and acc
\* still has the nodes extend gave it
C19_Witness ==
    /\ Len(log) = 2 /\ ret.op = "add_child" /\ ret.doc = "src"
    /\ ChildrenOf("src") # snaps[1].children[2]
    /\ snaps[1].children[2] # <<>>
    /\ ChildrenOf("acc") = snaps[1].children[1] \o snaps[1].children[2]

MaxEditLen == 2
MaxInserted == 2

\* start=None
NoStart == 0

Call(op, a, b, raised, res) == [op |-> op, a |-> a, b |-> b, raised |-> raised, res |-> res]

\* MarkdownDoc.insert_nodes, start being in ch
insert_nodes(ch, start, nodes) ==
    LET i == index(ch, start)
    IN PySlice(ch, 0, i) \o nodes \o PySlice(ch, i, Len(ch))

\* MarkdownDoc.slice, node_a and node_b being in ch
slice(ch, node_a, node_b) == PySlice(ch, index(ch, node_a), index(ch, node_b))

\* mutant: a start that is not in the document is taken as no start
find_first_lenient(ch, func, start) ==
    LET start_index == IF start # NoStart /\ Contains(ch, start) THEN index(ch, start) ELSE 0
        found == SelectSeq(PySlice(ch, start_index, Len(ch)), LAMBDA c : c \in func)
    IN Call("find_first", start, func, "no", IF found = <<>> THEN <<>> ELSE <<found[1]>>)

\* MarkdownDoc.find_first; func is given as the set of the nodes it accepts
find_first(ch, func, start) ==
    IF start # NoStart /\ ~Contains(ch, start)
    THEN Call("find_first", start, func, "ValueError", <<>>)
    ELSE LET start_index == IF start # NoStart THEN index(ch, start) ELSE 0
             found == SelectSeq(PySlice(ch, start_index, Len(ch)), LAMBDA c : c \in func)
         IN Call("find_first", start, func, "no", IF found = <<>> THEN <<>> ELSE <<found[1]>>)

InitEdit ==
    /\ heap = Pool
    /\ \E ch \in ExtendLists(MaxEditLen) : docs = [acc |-> ch, src |-> <<>>]
    /\ ret = Call("none", NoStart, <<>>, "no", <<>>)
    /\ calls = <<>> /\ snaps = <<>>
    /\ job = NoJob /\ log = <<>>
    /\ text = <<>> /\ buffer = <<>> /\ offset = 0 /\ children = <<>>
    /\ pc = "idle" /\ pass = 0 /\ first = <<>> /\ spans = <<>>

\* a call that returned or raised r and left the list ch
Called(r, ch) ==
    /\ log = <<>>
    /\ ret' = r
    /\ docs' = [docs EXCEPT !.acc = ch]
    /\ snaps' = << docs.acc >>
    /\ log' = << r.op >>
    /\ UNCHANGED <<heap, calls, job, parseVars>>

EditRemoveNode(o) ==
    Called(Call("remove_node", o, <<>>, "no", <<>>), remove_node(docs.acc, o))

EditRemoveNodes(nodes) ==
    Called(Call("remove_nodes", NoStart, nodes, "no", <<>>), remove_nodes(docs.acc, nodes))

EditInsertNode(start, o) ==
    IF Contains(docs.acc, start)
    THEN Called(Call("insert_node", start, <<o>>, "no", <<>>), insert_node(docs.acc, start, o))
    ELSE Called(Call("insert_node", start, <<o>>, "ValueError", <<>>), docs.acc)

EditInsertNodes(start, nodes) ==
    IF Contains(docs.acc, start)
    THEN Called(Call("insert_nodes", start, nodes, "no", <<>>),
                insert_nodes(docs.acc, start, nodes))
    ELSE Called(Call("insert_nodes", start, nodes, "ValueError", <<>>), docs.acc)

EditSlice(node_a, node_b) ==
    IF Contains(docs.acc, node_a) /\ Contains(docs.acc, node_b)
    THEN Called(Call("slice", node_a, node_b, "no", slice(docs.acc, node_a, node_b)), docs.acc)
    ELSE Called(Call("slice", node_a, node_b, "ValueError", <<>>), docs.acc)

EditNextNode(o) ==
    LET r == next_node(docs.acc, "acc", o)
    IN Called(Call("next_node", o, <<>>, r.raised,
                   IF r.node = {} THEN <<>> ELSE << CHOOSE n \in r.node : TRUE >>), docs.acc)

EditPreviousNode(o) ==
    LET r == previous_node(docs.acc, "acc", o)
    IN Called(Call("previous_node", o, <<>>, r.raised,
                   IF r.node = {} THEN <<>> ELSE << CHOOSE n \in r.node : TRUE >>), docs.acc)

EditFindFirst(func, start) == Called(find_first(docs.acc, func, start), docs.acc)

NextEdit ==
    \/ \E o \in ExtendNodes : EditRemoveNode(o)
    \/ \E nodes \in SUBSET ExtendNodes : EditRemoveNodes(nodes)
    \/ \E start, o \in ExtendNodes : EditInsertNode(start, o)
    \/ \E start \in ExtendNodes, nodes \in ExtendLists(MaxInserted) : EditInsertNodes(start, nodes)
    \/ \E a, b \in ExtendNodes : EditSlice(a, b)
    \/ \E o \in ExtendNodes : EditNextNode(o)
    \/ \E o \in ExtendNodes : EditPreviousNode(o)
    \/ \E func \in SUBSET ExtendNodes, start \in ExtendNodes \cup {NoStart} :
          EditFindFirst(func, start)

SpecEdit == InitEdit /\ [][NextEdit]_vars

(***************************************************************************)
(* Properties of the calls (SpecEdit)                                       *)
(***************************************************************************)
\* the list the call found, the list it left
Before == snaps[1]
After == docs.acc
Occurrences(ch, o) == { i \in 1..Len(ch) : ch[i] = o }

\* ch without its element at position i
Without(ch, i) == [k \in 1..(Len(ch) - 1) |-> IF k < i THEN ch[k] ELSE ch[k + 1]]

GivenNodes ==
    CASE ret.op = "slice" -> {ret.a, ret.b}
      [] ret.op \in {"insert_node", "insert_nodes", "next_node", "previous_node"} -> {ret.a}
      [] ret.op = "find_first" -> {ret.a} \ {NoStart}
      [] OTHER -> {}

\* C23: slice, insert_node, insert_nodes, next_node, previous_node and
\* find_first(start=...) given a node that is not in the document raise, and
\* the list is the list before.
C23_AbsentNodeRaises ==
    (\E o \in GivenNodes : Occurrences(Before, o) = {}) =>
        /\ ret.raised # "no"
        /\ ret.res = <<>>
        /\ After = Before

\* C23 reached: find_first from a start that is not in the document, which
\* holds a node func accepts
C23_Witness ==
    /\ ret.op = "find_first" /\ ret.a # NoStart
    /\ Occurrences(Before, ret.a) = {}
    /\ \E i \in 1..Len(Before) : Before[i] \in ret.b
    /\ ret.raised = "ValueError"

(***************************************************************************)
(* parser.py : calls on a Parser.  Specification SpecCursor.                *)
(* ret is the last call: its name, its argument a, the offset b it found,   *)
(* what it raised, the string it returned.                                  *)
(***************************************************************************)
MaxBufLen == 3
MaxCount == 2

DQ == "\""
CursorChars == {"a", ">", DQ}

\* Parser.read: the string returned
read(buf, off, count) ==
    IF left(buf, off) < count THEN <<>> ELSE SubSeq(buf, off + 1, off + count)

\* Parser.read_while: the string returned
read_while(buf, off, accept) == SubSeq(buf, off + 1, read_while_offset(buf, off, accept))

\* the functions read_while_prev is given: is_not_definition_end of
\* build_grammar_md.py, one that accepts all, one that wants a change
PrevFunctions == {"is_not_definition_end", "always", "differs"}
CallPrev(f, current, prev) ==
    CASE f = "is_not_definition_end" -> ~(current = ">" /\ prev # DQ)
      [] f = "always" -> TRUE
      [] OTHER -> current # prev

\* self.buffer[i], i >= -len(buffer): a negative index counts from the end
PyIndex(buf, i) == IF i < 0 THEN buf[Len(buf) + i + 1] ELSE buf[i + 1]

RECURSIVE read_while_prev_offset(_, _, _)
\* Parser.read_while_prev: the offset afterwards
read_while_prev_offset(buf, off, f) ==
    IF left(buf, off) > 0 /\ CallPrev(f, peek(buf, off, 1)[1], PyIndex(buf, off - 1))
    THEN read_while_prev_offset(buf, read_offset(buf, off, 1), f)
    ELSE off

\* Parser.read_while_prev: the string returned
read_while_prev(buf, off, f) == SubSeq(buf, off + 1, read_while_prev_offset(buf, off, f))

\* Parser(buffer)
InitCursor ==
    /\ buffer \in TextsUpTo(CursorChars, MaxBufLen)
    /\ offset = 0
    /\ ret = Call("none", 0, 0, "no", <<>>)
    /\ text = <<>> /\ children = <<>>
    /\ pc = "idle" /\ pass = 0 /\ first = <<>> /\ spans = <<>>
    /\ heap = NoHeap /\ docs = NoDocs /\ calls = <<>> /\ snaps = <<>>
    /\ job = NoJob /\ log = <<>>

cursorFrame == <<text, children, pc, pass, first, spans, heap, docs, calls, snaps, job, log>>

CursorRead(count) ==
    /\ ret' = Call("read", count, offset, "no", read(buffer, offset, count))
    /\ offset' = read_offset(buffer, offset, count)
    /\ UNCHANGED <<buffer, cursorFrame>>

CursorPeek(count) ==
    /\ ret' = Call("peek", count, offset, "no", peek(buffer, offset, count))
    /\ UNCHANGED <<buffer, offset, cursorFrame>>

CursorReadWhile(accept) ==
    /\ ret' = Call("read_while", accept, offset, "no", read_while(buffer, offset, accept))
    /\ offset' = read_while_offset(buffer, offset, accept)
    /\ UNCHANGED <<buffer, cursorFrame>>

CursorPeekWhile(accept) ==
    /\ ret' = Call("peek_while", accept, offset, "no", peek_while(buffer, offset, accept))
    /\ UNCHANGED <<buffer, offset, cursorFrame>>

CursorReadWhilePrev(f) ==
    /\ ret' = Call("read_while_prev", f, offset, "no", read_while_prev(buffer, offset, f))
    /\ offset' = read_while_prev_offset(buffer, offset, f)
    /\ UNCHANGED <<buffer, cursorFrame>>

NextCursor ==
    \/ \E count \in 0..MaxCount : CursorRead(count)
    \/ \E count \in 0..MaxCount : CursorPeek(count)
    \/ \E accept \in SUBSET CursorChars : CursorReadWhile(accept)
    \/ \E accept \in SUBSET CursorChars : CursorPeekWhile(accept)
    \/ \E f \in PrevFunctions : CursorReadWhilePrev(f)

SpecCursor == InitCursor /\ [][NextCursor]_vars

(***************************************************************************)
(* Properties of the Parser calls (SpecCursor)                              *)
(***************************************************************************)
\* C24: a call raises nothing, leaves the buffer as it is, does not move the
\* offset back nor past the end of the buffer; read(n) with fewer than n
\* characters left returns "" and leaves the offset where it is.
C24_CursorStaysInBuffer ==
    [][ /\ ret'.raised = "no"
        /\ buffer' = buffer
        /\ offset <= offset' /\ 0 <= offset' /\ offset' <= Len(buffer')
        /\ (ret'.op = "read" /\ Len(buffer) - offset < ret'.a)
              => (ret'.res = <<>> /\ offset' = offset) ]_vars

\* C24 reached: a read of more than is left, after the offset has moved
C24_Witness ==
    /\ ret.op = "read" /\ ret.res = <<>>
    /\ offset > 0 /\ offset < Len(buffer)
    /\ ret.a > Len(buffer) - offset

\* the longest run of characters of accept from position off + 1 of buf on
MaximalRun(buf, off, accept) ==
    LET ends == { j \in off..Len(buf) :
                    /\ \A k \in (off + 1)..j : buf[k] \in accept
                    /\ j = Len(buf) \/ buf[j + 1] \notin accept }
    IN SubSeq(buf, off + 1, SetMin(ends))

\* C25: peek(n) returns what read(n) returns from the same state, and
\* peek_while(f) what read_while(f) returns, the longest run of characters f
\* accepts; after peek and peek_while the offset is the offset before.
C25_PeekIsReadWithoutMove ==
    /\ ret.op = "peek" =>
          /\ ret.res = read(buffer, ret.b, ret.a)
          /\ offset = ret.b
    /\ ret.op = "peek_while" =>
          /\ ret.res = read_while(buffer, ret.b, ret.a)
          /\ ret.res = MaximalRun(buffer, ret.b, ret.a)
          /\ offset = ret.b
    /\ ret.op = "read_while" => ret.res = MaximalRun(buffer, ret.b, ret.a)

\* C25 reached: a peek and a peek_while that return characters, in the
\* middle of the buffer
C25_Witness ==
    /\ offset > 0 /\ offset < Len(buffer)
    /\ ret.op \in {"peek", "peek_while"}
    /\ Len(ret.res) >= 1
    /\ offset + Len(ret.res) <= Len(buffer)

(***************************************************************************)
(* Properties of the Headers and Paragraphs of a tokenizer run (SpecParse)  *)
(***************************************************************************)
\* where the characters child i was made of start in the buffer
StartOf(i) == Len(Concat(SubSeq(spans, 1, i - 1)))

\* the end of the line that starts after position pos of buf
LineEnd(buf, pos) == SetMin({ j \in pos..Len(buf) : j = Len(buf) \/ buf[j + 1] = NL })
\* the line that starts after position pos of buf, without its newline
LineAt(buf, pos) == SubSeq(buf, pos + 1, LineEnd(buf, pos))

WhitespaceOnly(line) == \A k \in 1..Len(line) : line[k] \in WhitespaceChars

\* the number of "#" s starts with
HashRun(s) == SetMin({ j \in 0..Len(s) : j = Len(s) \/ s[j + 1] # "#" })

\* line without the spaces and tabs it starts with
AfterSeparator(line) ==
    LET j == SetMin({ k \in 0..Len(line) : k = Len(line) \/ line[k + 1] \notin {SP, TAB} })
    IN SubSeq(line, j + 1, Len(line))

\* C26: a Header has as many levels as its line starts with "#", its title is
\* the rest of that line after the separating whitespace, and it is made of
\* that line and its newline, of nothing that follows.
C26_HeaderIsItsLine ==
    \A i \in 1..Len(children) :
        children[i].type = "Header" =>
            LET line == LineAt(buffer, StartOf(i))
                hashes == HashRun(line)
            IN /\ children[i].level = hashes
               /\ children[i].title = AfterSeparator(SubSeq(line, hashes + 1, Len(line)))
               /\ spans[i] \in {line, line \o <<NL>>}

\* the lines of t: what stands between its newlines, the empty rest after a
\* last newline left out
ParagraphLines(t) ==
    LET starts == {0} \cup { k \in 1..(Len(t) - 1) : t[k] = NL }
    IN { LineAt(t, k) : k \in starts }

\* C27: a Paragraph starts at a character that is no whitespace, is made of
\* exactly the characters consumed, ends at the end of the input or right
\* after the first of its newlines that a whitespace-only line follows, and
\* has no whitespace-only line.
C27_ParagraphEndsBeforeBlankLine ==
    \A i \in 1..Len(children) :
        children[i].type = "Paragraph" =>
            LET content == children[i].content
                start == StartOf(i)
                end == start + Len(content)
            IN /\ content = spans[i]
               /\ content = SubSeq(buffer, start + 1, end)
               /\ content # <<>> /\ content[1] \notin WhitespaceChars
               /\ \/ end = Len(buffer)
                  \/ content[Len(content)] = NL /\ WhitespaceOnly(LineAt(buffer, end))
               /\ \A k \in 1..(Len(content) - 1) :
                      content[k] = NL => ~WhitespaceOnly(LineAt(buffer, start + k))
               /\ \A line \in ParagraphLines(content) : ~WhitespaceOnly(line)

\* C27 reached: a Paragraph that ends right before a line of spaces, which
\* the Whitespace node after it is made of
C27_Witness ==
    /\ pc = "returned"
    /\ \E i \in 1..(Len(children) - 1) :
          /\ children[i].type = "Paragraph"
          /\ children[i + 1].type = "Whitespace"
          /\ LineAt(buffer, StartOf(i + 1)) # <<>>
          /\ WhitespaceOnly(LineAt(buffer, StartOf(i + 1)))

(***************************************************************************)
(* build_standalone_md.py : main.  Specification SpecMain.                  *)
(* Every merged file holds a header; one of them, the file number pass,     *)
(* holds text, which links to a header of a merged page as well.            *)
(***************************************************************************)
\* the calls of add_sections in main
MainSections ==
    <<
      [title |-> <<"I", "n", "t", "r", "o", "d", "u", "c", "t", "i", "o", "n">>,
       files |-> <<
         <<"d", "o", "c", "s", "/", "h", "o", "m", "e", ".", "m", "d">> >>],
      [title |-> <<"G", "e", "t", "t", "i", "n", "g", SP, "S", "t", "a", "r", "t", "e", "d">>,
       files |-> <<
         <<"d", "o", "c", "s", "/", "i", "n", "s", "t", "a", "l", "l", "a", "t", "i", "o", "n", ".", "m", "d">>,
         <<"d", "o", "c", "s", "/", "m", "a", "n", "u", "a", "l", ".", "m", "d">>,
         <<"d", "o", "c", "s", "/", "s", "a", "m", "p", "l", "e", "s", ".", "m", "d">>,
         <<"d", "o", "c", "s", "/", "r", "u", "n", "n", "i", "n", "g", "-", "t", "e", "s", "t", "s", ".", "m", "d">>,
         <<"d", "o", "c", "s", "/", "f", "r", "e", "q", "u", "e", "n", "t", "l", "y", "-", "a", "s", "k", "e", "d", "-", "q", "u", "e", "s", "t", "i", "o", "n", "s", ".", "m", "d">> >>],
      [title |-> <<"F", "i", "l", "e", SP, "F", "o", "r", "m", "a", "t">>,
       files |-> <<
         <<"d", "o", "c", "s", "/", "h", "u", "r", "l", "-", "f", "i", "l", "e", ".", "m", "d">>,
         <<"d", "o", "c", "s", "/", "e", "n", "t", "r", "y", ".", "m", "d">>,
         <<"d", "o", "c", "s", "/", "r", "e", "q", "u", "e", "s", "t", ".", "m", "d">>,
         <<"d", "o", "c", "s", "/", "r", "e", "s", "p", "o", "n", "s", "e", ".", "m", "d">>,
         <<"d", "o", "c", "s", "/", "c", "a", "p", "t", "u", "r", "i", "n", "g", "-", "r", "e", "s", "p", "o", "n", "s", "e", ".", "m", "d">>,
         <<"d", "o", "c", "s", "/", "a", "s", "s", "e", "r", "t", "i", "n", "g", "-", "r", "e", "s", "p", "o", "n", "s", "e", ".", "m", "d">>,
         <<"d", "o", "c", "s", "/", "f", "i", "l", "t", "e", "r", "s", ".", "m", "d">>,
         <<"d", "o", "c", "s", "/", "t", "e", "m", "p", "l", "a", "t", "e", "s", ".", "m", "d">>,
         <<"d", "o", "c", "s", "/", "g", "r", "a", "m", "m", "a", "r", ".", "m", "d">> >>],
      [title |-> <<"R", "e", "s", "o", "u", "r", "c", "e", "s">>,
       files |-> <<
         <<"d", "o", "c", "s", "/", "l", "i", "c", "e", "n", "s", "e", ".", "m", "d">> >>]
    >>

\* version, as read from Cargo.toml, and the date of the run
SampleVersion == <<"5", ".", "0", ".", "1">>
SampleDate == <<"0", "2", "-", "1", "1", "-", "2", "0", "2", "6">>

\* Path(file).name and Path(file).stem
PathName(file) ==
    LET slashes == { i \in 1..Len(file) : file[i] = "/" }
    IN SubSeq(file, SetMax(slashes \cup {0}) + 1, Len(file))
PathStem(file) ==
    LET name == PathName(file)
        dots == { i \in 2..Len(name) : name[i] = "." }
    IN IF dots = {} THEN name ELSE SubSeq(name, 1, SetMax(dots) - 1)

\* the files main merges, in order, each with the title of its section
MainFiles ==
    Concat([k \in 1..Len(MainSections) |->
               [f \in 1..Len(MainSections[k].files) |->
                   [title |-> MainSections[k].title, file |-> MainSections[k].files[f]]]])

\* the text of a file: a header, and in one file a link to that header of a page
PlainText == <<"#", SP, "O", NL>>
LinkText(page) ==
    <<"#", SP, "O", NL, NL, "[", "p", "]", "(", "/", "d", "o", "c", "s", "/">> \o page \o <<"#", "o", ")", NL>>

\* is old found in t at position i
FoundAt(t, old, i) == i + Len(old) - 1 <= Len(t) /\ SubSeq(t, i, i + Len(old) - 1) = old

RECURSIVE str_replace_from(_, _, _, _)
str_replace_from(t, old, new, i) ==
    IF i > Len(t) THEN <<>>
    ELSE IF FoundAt(t, old, i) THEN new \o str_replace_from(t, old, new, i + Len(old))
    ELSE <<t[i]>> \o str_replace_from(t, old, new, i + 1)

\* str.replace(old, new), old not empty
str_replace(t, old, new) ==
    IF \E i \in 1..Len(t) : t[i] = old[1] /\ FoundAt(t, old, i)
    THEN str_replace_from(t, old, new, 1)
    ELSE t

\* the replacements of rewrite_content, in order
Replacements(version) ==
    <<
       [old |-> <<"/", "d", "o", "c", "s", "/", "a", "s", "s", "e", "t", "s", "/", "i", "m", "g", "/">>,
        new |-> <<"h", "t", "t", "p", "s", ":", "/", "/", "h", "u", "r", "l", ".", "d", "e", "v", "/", "a",
        "s", "s", "e", "t", "s", "/", "i", "m", "g", "/">>],
       [old |-> <<"<", "d", "i", "v", SP, "i", "d", "=", DQ, "h", "o", "m", "e", "-", "d", "e", "m", "o", DQ,
        ">", "<", "/", "d", "i", "v", ">">>,
        new |-> <<>>],
       [old |-> <<"[", "B", "l", "o", "g", "]", "(", "b", "l", "o", "g", ".", "m", "d", ")">>,
        new |-> <<"[", "B", "l", "o", "g", "]", "(", "h", "t", "t", "p", "s", ":", "/", "/", "h", "u", "r",
        "l", ".", "d", "e", "v", "/", "b", "l", "o", "g", ")">>],
       [old |-> <<"[", "T", "u", "t", "o", "r", "i", "a", "l", "]", "(", "#", "f", "i", "l", "e", "-", "f",
        "o", "r", "m", "a", "t", "-", "t", "u", "t", "o", "r", "i", "a", "l", "/", "y", "o", "u",
        "r", "-", "f", "i", "r", "s", "t", "-", "h", "u", "r", "l", "-", "f", "i", "l", "e", ")">>,
        new |-> <<"[", "T", "u", "t", "o", "r", "i", "a", "l", "]", "(", "h", "t", "t", "p", "s", ":", "/",
        "/", "h", "u", "r", "l", ".", "d", "e", "v", "/", "d", "o", "c", "s", "/", "t", "u", "t",
        "o", "r", "i", "a", "l", "/", "y", "o", "u", "r", "-", "f", "i", "r", "s", "t", "-", "h",
        "u", "r", "l", "-", "f", "i", "l", "e", ".", "h", "t", "m", "l", ")">>],
       [old |-> <<"[", "D", "o", "c", "u", "m", "e", "n", "t", "a", "t", "i", "o", "n", "]", "(", "#", "g",
        "e", "t", "t", "i", "n", "g", "-", "s", "t", "a", "r", "t", "e", "d", "-", "i", "n", "s",
        "t", "a", "l", "l", "a", "t", "i", "o", "n", ")">>,
        new |-> <<"[", "D", "o", "c", "u", "m", "e", "n", "t", "a", "t", "i", "o", "n", "]", "(", "h", "t",
        "t", "p", "s", ":", "/", "/", "h", "u", "r", "l", ".", "d", "e", "v", ")">>],
       [old |-> <<SP, "(", "d", "o", "w", "n", "l", "o", "a", "d", SP, "[", "H", "T", "M", "L", "]", "(", "/",
        "d", "o", "c", "s", "/", "s", "t", "a", "n", "d", "a", "l", "o", "n", "e", "/", "h", "u",
        "r", "l", "-">>
        \o version
        \o <<".", "h", "t", "m", "l", ")", ",", SP, "[", "P", "D", "F", "]", "(", "/", "d", "o", "c", "s",
        "/", "s", "t", "a", "n", "d", "a", "l", "o", "n", "e", "/", "h", "u", "r", "l", "-">>
        \o version
        \o <<".", "p", "d", "f", ")", ",", SP, "[", "M", "a", "r", "k", "d", "o", "w", "n", "]", "(", "/",
        "d", "o", "c", "s", "/", "s", "t", "a", "n", "d", "a", "l", "o", "n", "e", "/", "h", "u",
        "r", "l", "-">>
        \o version
        \o <<".", "m", "d", ")", ")">>,
        new |-> <<>>],
       [old |-> <<"/", "d", "o", "c", "s", "/", "a", "s", "s", "e", "r", "t", "i", "n", "g", "-", "r", "e",
        "s", "p", "o", "n", "s", "e", ".", "h", "t", "m", "l", "#">>,
        new |-> <<"#", "f", "i", "l", "e", "-", "f", "o", "r", "m", "a", "t", "-", "a", "s", "s", "e", "r",
        "t", "i", "n", "g", "-", "r", "e", "s", "p", "o", "n", "s", "e", "-">>],
       [old |-> <<"<", "a", SP, "h", "r", "e", "f", "=", DQ, "/", "d", "o", "c", "s", "/", "c", "a", "p", "t",
        "u", "r", "i", "n", "g", "-", "r", "e", "s", "p", "o", "n", "s", "e", ".", "h", "t", "m",
        "l", DQ, ">">>,
        new |-> <<"<", "a", SP, "h", "r", "e", "f", "=", DQ, "#", "f", "i", "l", "e", "-", "f", "o", "r", "m",
        "a", "t", "-", "c", "a", "p", "t", "u", "r", "i", "n", "g", "-", "r", "e", "s", "p", "o",
        "n", "s", "e", "-", "c", "a", "p", "t", "u", "r", "i", "n", "g", "-", "r", "e", "s", "p",
        "o", "n", "s", "e", DQ, ">">>],
       [old |-> <<"<", "a", SP, "h", "r", "e", "f", "=", DQ, "#", "m", "e", "t", "h", "o", "d", DQ, ">", "M",
        "e", "t", "h", "o", "d", "<", "/", "a", ">">>,
        new |-> <<"<", "a", SP, "h", "r", "e", "f", "=", DQ, "#", "f", "i", "l", "e", "-", "f", "o", "r", "m",
        "a", "t", "-", "r", "e", "q", "u", "e", "s", "t", "-", "m", "e", "t", "h", "o", "d", DQ, ">",
        "M", "e", "t", "h", "o", "d", "<", "/", "a", ">">>],
       [old |-> <<"<", "a", SP, "h", "r", "e", "f", "=", DQ, "#", "u", "r", "l", DQ, ">", "U", "R", "L", "<",
        "/", "a", ">">>,
        new |-> <<"<", "a", SP, "h", "r", "e", "f", "=", DQ, "#", "f", "i", "l", "e", "-", "f", "o", "r", "m",
        "a", "t", "-", "r", "e", "q", "u", "e", "s", "t", "-", "u", "r", "l", DQ, ">", "U", "R", "L",
        "<", "/", "a", ">">>],
       [old |-> <<"<", "a", SP, "h", "r", "e", "f", "=", DQ, "#", "h", "e", "a", "d", "e", "r", "s", DQ, ">",
        "H", "T", "T", "P", SP, "r", "e", "q", "u", "e", "s", "t", SP, "h", "e", "a", "d", "e", "r",
        "s", "<", "/", "a", ">">>,
        new |-> <<"<", "a", SP, "h", "r", "e", "f", "=", DQ, "#", "f", "i", "l", "e", "-", "f", "o", "r", "m",
        "a", "t", "-", "r", "e", "q", "u", "e", "s", "t", "-", "h", "e", "a", "d", "e", "r", "s", DQ,
        ">", "H", "T", "T", "P", SP, "r", "e", "q", "u", "e", "s", "t", SP, "h", "e", "a", "d", "e",
        "r", "s", "<", "/", "a", ">">>],
       [old |-> <<"<", "a", SP, "h", "r", "e", "f", "=", DQ, "#", "o", "p", "t", "i", "o", "n", "s", DQ, ">",
        "O", "p", "t", "i", "o", "n", "s", "<", "/", "a", ">">>,
        new |-> <<"<", "a", SP, "h", "r", "e", "f", "=", DQ, "#", "f", "i", "l", "e", "-", "f", "o", "r", "m",
        "a", "t", "-", "o", "p", "t", "i", "o", "n", "s", DQ, ">", "O", "p", "t", "i", "o", "n", "s",
        "<", "/", "a", ">">>],
       [old |-> <<"<", "a", SP, "h", "r", "e", "f", "=", DQ, "#", "q", "u", "e", "r", "y", "-", "p", "a", "r",
        "a", "m", "e", "t", "e", "r", "s", DQ, ">", "q", "u", "e", "r", "y", SP, "s", "t", "r", "i",
        "n", "g", "s", "<", "/", "a", ">">>,
        new |-> <<"<", "a", SP, "h", "r", "e", "f", "=", DQ, "#", "f", "i", "l", "e", "-", "f", "o", "r", "m",
        "a", "t", "-", "r", "e", "q", "u", "e", "s", "t", "-", "q", "u", "e", "r", "y", "-", "p",
        "a", "r", "a", "m", "e", "t", "e", "r", "s", DQ, ">", "q", "u", "e", "r", "y", SP, "s", "t",
        "r", "i", "n", "g", "s", "<", "/", "a", ">">>],
       [old |-> <<"<", "a", SP, "h", "r", "e", "f", "=", DQ, "#", "f", "o", "r", "m", "-", "p", "a", "r", "a",
        "m", "e", "t", "e", "r", "s", DQ, ">", "f", "o", "r", "m", SP, "p", "a", "r", "a", "m", "s",
        "<", "/", "a", ">">>,
        new |-> <<"<", "a", SP, "h", "r", "e", "f", "=", DQ, "#", "f", "i", "l", "e", "-", "f", "o", "r", "m",
        "a", "t", "-", "r", "e", "q", "u", "e", "s", "t", "-", "f", "o", "r", "m", "-", "p", "a",
        "r", "a", "m", "e", "t", "e", "r", "s", DQ, ">", "f", "o", "r", "m", SP, "p", "a", "r", "a",
        "m", "s", "<", "/", "a", ">">>],
       [old |-> <<"<", "a", SP, "h", "r", "e", "f", "=", DQ, "#", "c", "o", "o", "k", "i", "e", "s", DQ, ">",
        "c", "o", "o", "k", "i", "e", "s", "<", "/", "a", ">">>,
        new |-> <<"<", "a", SP, "h", "r", "e", "f", "=", DQ, "#", "f", "i", "l", "e", "-", "f", "o", "r", "m",
        "a", "t", "-", "r", "e", "q", "u", "e", "s", "t", "-", "c", "o", "o", "k", "i", "e", "s", DQ,
        ">", "c", "o", "o", "k", "i", "e", "s", "<", "/", "a", ">">>],
       [old |-> <<"<", "a", SP, "h", "r", "e", "f", "=", DQ, "#", "b", "a", "s", "i", "c", "-", "a", "u", "t",
        "h", "e", "n", "t", "i", "c", "a", "t", "i", "o", "n", DQ, ">", "a", "u", "t", "h", "e", "n",
        "t", "i", "c", "a", "t", "i", "o", "n", "<", "/", "a", ">">>,
        new |-> <<"<", "a", SP, "h", "r", "e", "f", "=", DQ, "#", "f", "i", "l", "e", "-", "f", "o", "r", "m",
        "a", "t", "-", "r", "e", "q", "u", "e", "s", "t", "-", "b", "a", "s", "i", "c", "-", "a",
        "u", "t", "h", "e", "n", "t", "i", "c", "a", "t", "i", "o", "n", DQ, ">", "a", "u", "t", "h",
        "e", "n", "t", "i", "c", "a", "t", "i", "o", "n", "<", "/", "a", ">">>],
       [old |-> <<"<", "a", SP, "h", "r", "e", "f", "=", DQ, "#", "b", "o", "d", "y", DQ, ">", "H", "T", "T",
        "P", SP, "r", "e", "q", "u", "e", "s", "t", SP, "b", "o", "d", "y", "<", "/", "a", ">">>,
        new |-> <<"<", "a", SP, "h", "r", "e", "f", "=", DQ, "#", "f", "i", "l", "e", "-", "f", "o", "r", "m",
        "a", "t", "-", "r", "e", "q", "u", "e", "s", "t", "-", "b", "o", "d", "y", DQ, ">", "H", "T",
        "T", "P", SP, "r", "e", "q", "u", "e", "s", "t", SP, "b", "o", "d", "y", "<", "/", "a", ">">>],
       [old |-> <<"[", "U", "U", "I", "D", SP, "v", "4", SP, "r", "a", "n", "d", "o", "m", SP, "s", "t", "r",
        "i", "n", "g", "]">>,
        new |-> <<"[", "U", "U", "I", "D", SP, "v", "4", SP, "r", "a", "n", "d", "o", "m", SP, "s", "t", "r",
        "i", "n", "g", "]", "(", "h", "t", "t", "p", "s", ":", "/", "/", "e", "n", ".", "w", "i",
        "k", "i", "p", "e", "d", "i", "a", ".", "o", "r", "g", "/", "w", "i", "k", "i", "/", "U",
        "n", "i", "v", "e", "r", "s", "a", "l", "l", "y", "_", "u", "n", "i", "q", "u", "e", "_",
        "i", "d", "e", "n", "t", "i", "f", "i", "e", "r", ")">>],
       [old |-> <<"[", "R", "F", "C", SP, "3", "3", "3", "9", "]">>,
        new |-> <<"[", "R", "F", "C", SP, "3", "3", "3", "9", "]", "(", "h", "t", "t", "p", "s", ":", "/", "/",
        "w", "w", "w", ".", "r", "f", "c", "-", "e", "d", "i", "t", "o", "r", ".", "o", "r", "g",
        "/", "r", "f", "c", "/", "r", "f", "c", "3", "3", "3", "9", ")">>]
    >>

RECURSIVE replace_each(_, _)
replace_each(t, pairs) ==
    IF pairs = <<>> THEN t
    ELSE replace_each(str_replace(t, Head(pairs).old, Head(pairs).new), Tail(pairs))

\* rewrite_content
rewrite_content(t, version) == replace_each(t, Replacements(version))

InitMain ==
    /\ pass \in 1..Len(MainFiles)
    /\ text \in { LinkText(PathName(MainFiles[k].file)) : k \in 1..Len(MainFiles) }
    /\ heap = <<>>
    /\ docs = [acc |-> <<>>, src |-> <<>>]
    /\ job = [pc |-> "sections", section |-> 0, file |-> 0, merged |-> <<>>]
    /\ ret = NoRet
    /\ calls = <<>> /\ snaps = <<>> /\ log = <<>>
    /\ buffer = <<>> /\ offset = 0 /\ children = <<>>
    /\ pc = "idle" /\ first = <<>> /\ spans = <<>>

mainFrame == <<text, buffer, offset, children, pc, pass, first, spans, calls, snaps, log>>

\* add_sections(doc=standalone_md, title=..., files=[...]) is called:
\* add_section_header
MainAddSections ==
    /\ job.pc = "sections"
    /\ job.section < Len(MainSections)
    /\ LET title == MainSections[job.section + 1].title
           node == add_header_id(Header(title, 1), PyNone)
           ws == Node("Whitespace", <<NL>>)
       IN /\ heap' = heap \o <<node, ws>>
          /\ docs' = [docs EXCEPT !.acc = add_child(add_child(@, Len(heap) + 1), Len(heap) + 2)]
    /\ job' = [job EXCEPT !.pc = "files", !.section = @ + 1, !.file = 0]
    /\ UNCHANGED <<ret, mainFrame>>

\* one iteration of "for file in files" of add_sections
MainFile ==
    /\ job.pc = "files"
    /\ job.file < Len(MainSections[job.section].files)
    /\ LET title == MainSections[job.section].title
           file == MainSections[job.section].files[job.file + 1]
           nodes == parse_markdown(IF Len(job.merged) + 1 = pass THEN text ELSE PlainText)
           file_md == NewOids(heap, Len(nodes))
           indented == indent(heap \o nodes, file_md, 1)
           inlined == inline_ref_link(indented, file_md)
           prefix == anchors_prefix(title, PathStem(file))
           with_ids == rewrite_links_headers(inlined.heap, inlined.children, prefix)
           rewritten == rewrite_links_nodes(with_ids, inlined.children, prefix)
           hr == Node("Paragraph", <<NL, NL, "<", "h", "r", ">", NL, NL>>)
           merged == add_child(inlined.children, Len(rewritten) + 1)
       IN /\ heap' = Append(rewritten, hr)
          /\ docs' = [acc |-> extend(docs.acc, merged), src |-> merged]
          /\ job' = [job EXCEPT !.file = @ + 1,
                                !.merged = Append(@, [title |-> title, page |-> PathName(file),
                                                      nodes |-> merged])]
    /\ UNCHANGED <<ret, mainFrame>>

\* the loop over the files ends: add_sections returns
MainReturnSections ==
    /\ job.pc = "files"
    /\ job.file = Len(MainSections[job.section].files)
    /\ job' = [job EXCEPT !.pc = "sections"]
    /\ UNCHANGED <<heap, docs, ret, mainFrame>>

\* "Make the cover", to_text, rewrite_content, print
MainCover ==
    /\ job.pc = "sections"
    /\ job.section = Len(MainSections)
    /\ LET toc_txt == toc(heap, docs.acc)
           n == Len(heap)
           nodes == << Node("Paragraph", toc_txt),
                       Header(<<"H", "u", "r", "l", SP, "D", "o", "c", "u", "m", "e", "n", "t", "a", "t", "i", "o", "n">>, 1),
                       Node("Whitespace", <<NL>>),
                       Header(<<"V", "e", "r", "s", "i", "o", "n", SP>> \o SampleVersion \o <<SP, "-", SP>> \o SampleDate, 2),
                       Node("Whitespace", <<NL>>) >>
           standalone_md == <<n + 2, n + 3, n + 4, n + 5, n + 1>> \o docs.acc
       IN /\ heap' = heap \o nodes
          /\ docs' = [docs EXCEPT !.acc = standalone_md]
          /\ snaps' = <<toc_txt>>
          /\ ret' = [NoRet EXCEPT !.op = "print",
                                  !.txt = rewrite_content(to_text(Deref(heap', standalone_md)),
                                                          SampleVersion)]
    /\ job' = [job EXCEPT !.pc = "done"]
    /\ UNCHANGED <<text, buffer, offset, children, pc, pass, first, spans, calls, log>>

NextMain == MainAddSections \/ MainFile \/ MainReturnSections \/ MainCover

SpecMain == InitMain /\ [][NextMain]_vars

(***************************************************************************)
(* Properties of the assembled document (SpecMain)                          *)
(***************************************************************************)
\* the targets of the links "(#target)" of a text
LinkTargets(t) ==
    { SubSeq(t, i + 2, IndexFrom(t, i, ")") - 1) :
        i \in { k \in 1..(Len(t) - 1) : t[k] = "(" /\ t[k + 1] = "#" /\ IndexFrom(t, k, ")") # 0 } }

\* the ids of the headers of the document
HeaderIds == { heap[o].id : o \in Range(OfType(heap, docs.acc, {"Header"})) } \ {NoStr}

\* C28: section_from_page of the name of a merged file is the title of the
\* section main merged it under, and the target of every link of a merged
\* file to a header of a merged page is the id of a header of the document.
C28_MergedLinksResolve ==
    /\ \A k \in 1..Len(job.merged) : section_from_page(job.merged[k].page) = job.merged[k].title
    /\ job.pc = "done" =>
          \A k \in 1..Len(job.merged) :
              \A o \in Range(OfType(heap, job.merged[k].nodes, {"Paragraph"})) :
                  LinkTargets(heap[o].content) \subseteq HeaderIds

\* the headers toc made its bullets from: the cover's are inserted afterwards
ListedHeaders == SelectSeq(Deref(heap, docs.acc), LAMBDA n : HasId(n))

\* the lines of the bullets of the text toc returned
BulletLines ==
    LET ls == SplitOn(snaps[1], NL)
    IN SubSeq(ls, 3, Len(ls) - 1)

\* C29: in the assembled document there is one bullet per header, and the
\* target of the link of a bullet is the id of its header.
C29_TocLinksResolve ==
    job.pc = "done" =>
        /\ Len(BulletLines) = Len(ListedHeaders)
        /\ \A k \in 1..Len(BulletLines) :
              LinkTargets(BulletLines[k]) = { ListedHeaders[k].id }

(***************************************************************************)
(* build_grammar_md.py : GrammarParser.  Specification SpecGrammar.         *)
(* pc is the loop the parser stands at the head of, children the rules,     *)
(* job the rule being parsed, pass the number of loop iterations so far.    *)
(***************************************************************************)
MaxGrammarLen == 4
MaxIterations == 8

BS == "\\"
GrammarChars == {"a", "=", "A", DQ, BS, "<", ">", SP, NL, "#"}

\* what r"[a-z\-|\d]" matches
NonTerminalChars == Range(LowerLetters) \cup Digits \cup {"-", "|"}
\* what parse_whitespaces reads
GrammarSpaces == {SP, NL, TAB}
\* what parse_comment reads: lambda it: it != "\n"
CommentChars == (Chars \cup GrammarChars) \ {NL}

Token(type, value) == [type |-> type, value |-> value]
NoRule == [non_terminal |-> <<>>, tokens |-> <<>>, start |-> 0]

\* "\n\n" in sp, "\n" in sp
HasBlankLine(sp) == \E i \in 1..(Len(sp) - 1) : sp[i] = NL /\ sp[i + 1] = NL
HasNewline(sp) == \E i \in 1..Len(sp) : sp[i] = NL

\* GrammarParser(buffer).parse_grammar() is called
InitGrammar ==
    /\ buffer \in TextsUpTo(GrammarChars, MaxGrammarLen)
    /\ offset = 0
    /\ pc = "rules"
    /\ children = <<>>
    /\ job = NoRule
    /\ pass = 0
    /\ text = <<>> /\ first = <<>> /\ spans = <<>>
    /\ heap = NoHeap /\ docs = NoDocs /\ ret = "none" /\ calls = <<>> /\ snaps = <<>>
    /\ log = <<>>

grammarFrame == <<text, buffer, first, spans, heap, docs, ret, calls, snaps, log>>

\* an iteration of the loop of parse_grammar: parse_rule up to its token loop
RuleIteration ==
    /\ pc = "rules"
    /\ left(buffer, offset) > 0
    /\ pass < MaxIterations
    /\ pass' = pass + 1
    /\ IF peek(buffer, offset, 1) = <<"#">>
       THEN \* parse_comment; return None
            /\ offset' = read_while_offset(buffer, read_while_offset(buffer, offset, CommentChars),
                                           GrammarSpaces)
            /\ UNCHANGED <<pc, job, children>>
       ELSE LET o1 == read_while_offset(buffer, offset, NonTerminalChars)
                o2 == read_while_offset(buffer, o1, GrammarSpaces)
                equal == read(buffer, o2, 1)
                o3 == read_offset(buffer, o2, 1)
                o4 == read_while_offset(buffer, o3, GrammarSpaces)
            IN IF equal = <<"=">>
               THEN /\ offset' = o4
                    /\ job' = [non_terminal |-> SubSeq(buffer, offset + 1, o1),
                               tokens |-> <<>>, start |-> 0]
                    /\ pc' = "tokens"
                    /\ UNCHANGED children
               ELSE \* assert ret == "="
                    /\ offset' = o3
                    /\ pc' = "raised"
                    /\ UNCHANGED <<job, children>>
    /\ UNCHANGED grammarFrame

\* the loop of parse_grammar ends: return rules
GrammarReturn ==
    /\ pc = "rules"
    /\ left(buffer, offset) = 0
    /\ pc' = "returned"
    /\ UNCHANGED <<offset, children, job, pass, grammarFrame>>

\* parse_rule returns the rule: rules.append(rule)
EndRule(tokens) ==
    /\ children' = Append(children, [non_terminal |-> job.non_terminal, tokens |-> tokens])
    /\ job' = NoRule
    /\ pc' = "rules"

\* tokens.append(token), back to the head of the token loop
AppendToken(token, off) ==
    /\ offset' = off
    /\ job' = [job EXCEPT !.tokens = Append(@, token)]
    /\ pc' = "tokens"
    /\ UNCHANGED children

\* an iteration of the token loop of parse_rule
TokenIteration ==
    /\ pc = "tokens"
    /\ left(buffer, offset) > 0
    /\ pass < MaxIterations
    /\ pass' = pass + 1
    /\ LET c == peek(buffer, offset, 1)[1]
           one == read_offset(buffer, offset, 1)
       IN CASE c \in {"(", ")", "|"} -> AppendToken(Token(c, <<c>>), one)
            [] c = "<" ->
                 \* parse_definition
                 LET o1 == read_while_prev_offset(buffer, one, "is_not_definition_end")
                     close == read(buffer, o1, 1)
                 IN IF close = <<">">>
                    THEN AppendToken(Token("Definition", SubSeq(buffer, one + 1, o1)),
                                     read_offset(buffer, o1, 1))
                    ELSE /\ offset' = read_offset(buffer, o1, 1)
                         /\ pc' = "raised"
                         /\ UNCHANGED <<job, children>>
            [] c \in {"*", "?", "+"} -> AppendToken(Token("Cardinality", <<c>>), one)
            [] c \in {SP, NL} ->
                 LET o1 == read_while_offset(buffer, offset, GrammarSpaces)
                     sp == SubSeq(buffer, offset + 1, o1)
                 IN IF HasBlankLine(sp)
                    THEN offset' = o1 /\ EndRule(job.tokens)
                    ELSE AppendToken(Token(IF HasNewline(sp) THEN "FollowEol" ELSE "Follow",
                                           <<>>), o1)
            [] c = DQ ->
                 \* parse_terminal up to its loop
                 /\ offset' = one
                 /\ job' = [job EXCEPT !.start = one]
                 /\ pc' = "terminal"
                 /\ UNCHANGED children
            [] OTHER ->
                 \* parse_non_terminal
                 LET o1 == read_while_offset(buffer, offset, NonTerminalChars)
                 IN AppendToken(Token("NonTerminal", SubSeq(buffer, offset + 1, o1)), o1)
    /\ UNCHANGED grammarFrame

\* the token loop ends with the input
TokenEnd ==
    /\ pc = "tokens"
    /\ left(buffer, offset) = 0
    /\ EndRule(job.tokens)
    /\ UNCHANGED <<offset, pass, grammarFrame>>

\* an iteration of the loop of parse_terminal
TerminalIteration ==
    /\ pc = "terminal"
    /\ left(buffer, offset) > 0
    /\ pass < MaxIterations
    /\ pass' = pass + 1
    /\ LET c == peek(buffer, offset, 1)[1]
       IN IF c = BS
          THEN /\ offset' = read_offset(buffer, offset, 2)
               /\ UNCHANGED <<pc, job, children>>
          ELSE IF c = DQ /\ offset # job.start
          THEN \* break; name = ...; c = self.read(); assert c == '"'
               AppendToken(Token("Terminal", SubSeq(buffer, job.start + 1, offset)),
                           read_offset(buffer, offset, 1))
          ELSE /\ offset' = read_offset(buffer, offset, 1)
               /\ UNCHANGED <<pc, job, children>>
    /\ UNCHANGED grammarFrame

\* the loop of parse_terminal ends with the input: read() returns "" and
\* the assertion fails
TerminalEnd ==
    /\ pc = "terminal"
    /\ left(buffer, offset) = 0
    /\ pc' = "raised"
    /\ UNCHANGED <<offset, children, job, pass, grammarFrame>>

NextGrammar ==
    \/ RuleIteration
    \/ GrammarReturn
    \/ TokenIteration
    \/ TokenEnd
    \/ TerminalIteration
    \/ TerminalEnd

SpecGrammar == InitGrammar /\ [][NextGrammar]_vars

(***************************************************************************)
(* Properties of parse_grammar (SpecGrammar)                                *)
(***************************************************************************)
\* C30: an iteration of the rule loop, of the token loop and of the loop of
\* parse_terminal reads at least one character, or ends in an assertion
\* error: no iteration leaves the offset where it was.
C30_EveryIterationAdvances ==
    [][ pass' > pass => (offset' > offset \/ pc' = "raised") ]_vars

====
